---------------------------- MODULE Spec2Model ----------------------------
(***************************************************************************)
(* A model of the vintage FastCGI server: the record codec (record.rs,     *)
(* record/*.rs), the framing layer (connection.rs), the per-connection     *)
(* session (server.rs, Server::fast_cgi) and the acceptor with its worker  *)
(* pool and its handle (server.rs, Server::server_loop, ServerHandle).     *)
(*                                                                         *)
(* Bytes are naturals 0..255, byte strings are sequences of bytes, and a   *)
(* BTreeMap<String, String> is a function whose domain is a set of byte    *)
(* strings.  A packet on the wire is a record of its header fields and     *)
(* its content.                                                            *)
(***************************************************************************)
EXTENDS Naturals, Sequences, FiniteSets, TLC

VARIABLES
    conns,      \* connection id -> the connection's session state
    pending,    \* connections waiting in the listener's backlog
    arrived,    \* connections peers have opened so far
    acc,        \* where the acceptor thread is in server_loop
    events,     \* tokens of the last poll still to be iterated
    woken,      \* the waker has been signalled and not yet polled
    exit,       \* how the acceptor thread ended
    chan,       \* the rendezvous channel signal_shutdown/observe_shutdown
    hpc,        \* where the owner of the ServerHandle is
    hres,       \* what stop()/join() returned
    codec,      \* a record taken through the codec and the framing layer
    resp,       \* a Response being built and then serialized (context.rs)
    config,     \* the ServerConfig handed to handle_connection
    pipe,       \* a pipe A.or(B) being run on a context (pipe.rs)
    readable    \* the listener has a readiness event poll has not delivered

vars ==
    <<conns, pending, arrived, acc, events, woken, exit, chan, hpc, hres, codec, resp, config, pipe,
      readable>>

---------------------------------------------------------------------------
(* Bounds of the model *)

\* connections opened by peers in one run
MaxConns == 2

\* threads of the worker pool
NumWorkers == 1

\* packets a peer sends on one connection
MaxPackets == 4

\* name-value pairs given to one pairs record, or sent in one payload
MaxPairs == 2

\* builder calls made on one Response before it is serialized
MaxCalls == 3

---------------------------------------------------------------------------
(* record.rs: record type ids *)

FCGI_BEGIN_REQUEST == 1

FCGI_ABORT_REQUEST == 2

FCGI_END_REQUEST == 3

FCGI_PARAMS == 4

FCGI_STDIN == 5

FCGI_STDOUT == 6

FCGI_STDERR == 7

FCGI_DATA == 8

FCGI_GET_VALUES == 9

FCGI_GET_VALUES_RESULT == 10

FCGI_UNKNOWN_TYPE == 11

MANAGEMENT_RECORD_TYPES == {FCGI_GET_VALUES, FCGI_GET_VALUES_RESULT, FCGI_UNKNOWN_TYPE}

DISCRETE_RECORD_TYPES ==
    {FCGI_GET_VALUES, FCGI_GET_VALUES_RESULT, FCGI_UNKNOWN_TYPE,
     FCGI_BEGIN_REQUEST, FCGI_ABORT_REQUEST, FCGI_END_REQUEST}

\* begin_request.rs
MASK_FCGI_KEEP_CONN == 1

\* server.rs:45-46: the tokens of the mio event loop
SERVER == 0

SHUTDOWN == 1

---------------------------------------------------------------------------
(* Byte strings used by the model (ASCII) *)

REQUEST_METHOD == <<82, 69, 81, 85, 69, 83, 84, 95, 77, 69, 84, 72, 79, 68>>

PATH_INFO == <<80, 65, 84, 72, 95, 73, 78, 70, 79>>

QUERY_STRING == <<81, 85, 69, 82, 89, 95, 83, 84, 82, 73, 78, 71>>

FCGI_MPXS_CONNS == <<70, 67, 71, 73, 95, 77, 80, 88, 83, 95, 67, 79, 78, 78, 83>>

VALUE_WE_DONT_KNOW == <<86, 65, 76, 85, 69, 95, 87, 69, 95, 68, 79, 78, 84, 95, 75, 78, 79, 87>>

\* "GET"
StrGET == <<71, 69, 84>>

\* "/"
StrSlash == <<47>>

\* "BAR"
StrBAR == <<66, 65, 82>>

\* "0"
StrZero == <<48>>

\* "Status"
StrStatus == <<83, 116, 97, 116, 117, 115>>

\* "404"
Str404 == <<52, 48, 52>>

\* ": "
StrColonSpace == <<58, 32>>

\* "\n"
StrNewline == <<10>>

---------------------------------------------------------------------------
(* Helpers on byte strings *)

RECURSIVE LexLess(_, _)
\* the order of String keys in a BTreeMap: lexicographic on bytes
LexLess(a, b) ==
    IF a = <<>> THEN b # <<>>
    ELSE IF b = <<>> THEN FALSE
    ELSE IF Head(a) # Head(b) THEN Head(a) < Head(b)
    ELSE LexLess(Tail(a), Tail(b))

\* the least key of a non-empty set of keys
MinKey(S) == CHOOSE k \in S : \A o \in S : o = k \/ LexLess(k, o)

RECURSIVE SortedKeys(_)
\* BTreeMap::iter / keys: the keys in ascending order
SortedKeys(S) ==
    IF S = {} THEN <<>>
    ELSE LET k == MinKey(S) IN <<k>> \o SortedKeys(S \ {k})

\* String::from_utf8 accepts the bytes.  The model's byte strings are ASCII
\* except for lone bytes >= 128, which are never valid UTF-8 on their own.
IsUtf8(bytes) == \A i \in 1..Len(bytes) : bytes[i] <= 127

\* u16::from_be_bytes
U16(hi, lo) == hi * 256 + lo

\* u32::to_be_bytes
U32Bytes(n) == <<(n \div 16777216) % 256, (n \div 65536) % 256, (n \div 256) % 256, n % 256>>

\* Rust's `let r = v;` followed by F: F applied to the value of v, which is
\* computed once
Bind(v, F(_)) == CHOOSE x \in {F(r) : r \in {v}} : TRUE

Ok(v) == [ok |-> TRUE, val |-> v]

Err(e) == [ok |-> FALSE, err |-> e]

\* the empty BTreeMap
EmptyMap == [k \in {} |-> <<>>]

\* BTreeMap::insert
MapInsert(m, k, v) == [x \in DOMAIN m \cup {k} |-> IF x = k THEN v ELSE m[x]]

\* BTreeMap::remove, the map that is left
MapRemove(m, k) == [x \in DOMAIN m \ {k} |-> m[x]]

---------------------------------------------------------------------------
(* record/pairs.rs: name-value pairs *)

\* read_pair_len: the length read at position i of bytes (1-based) and the
\* position after it, or MalformedRecordPayload("Params")
read_pair_len(bytes, i) ==
    IF i > Len(bytes) THEN Err([kind |-> "MalformedRecordPayload", of |-> "Params"])
    ELSE IF bytes[i] <= 127 THEN Ok([len |-> bytes[i], next |-> i + 1])
    ELSE IF i + 3 > Len(bytes) THEN Err([kind |-> "MalformedRecordPayload", of |-> "Params"])
    ELSE Ok([len |-> (bytes[i] % 128) * 16777216 + bytes[i + 1] * 65536
                        + bytes[i + 2] * 256 + bytes[i + 3],
             next |-> i + 4])

\* a write_pair_len that still uses one byte at 128
write_len_late(n) ==
    IF n > 128
    THEN <<((n \div 16777216) % 256) + (IF (n \div 16777216) % 256 < 128 THEN 128 ELSE 0),
           (n \div 65536) % 256, (n \div 256) % 256, n % 256>>
    ELSE <<n>>

\* write_pair_len for one side of a pair
write_len(n) ==
    IF n > 127
    THEN <<((n \div 16777216) % 256) + (IF (n \div 16777216) % 256 < 128 THEN 128 ELSE 0),
           (n \div 65536) % 256, (n \div 256) % 256, n % 256>>
    ELSE <<n>>

\* write_pair_len: the name length then the value length
write_pair_len(key, value) == write_len(Len(key)) \o write_len(Len(value))

RECURSIVE pairs_from(_, _, _)
\* the loop of pairs::from_record_bytes from cursor position i with the map
\* built so far: nl and vl are the two lengths read, the name spans
\* ns..vs-1 and the value vs..e-1
pairs_from(bytes, i, pairs) ==
    IF i = Len(bytes) + 1 THEN Ok(pairs)
    ELSE Bind(read_pair_len(bytes, i), LAMBDA nl :
      IF ~nl.ok THEN nl
      ELSE Bind(read_pair_len(bytes, nl.val.next), LAMBDA vl :
        IF ~vl.ok THEN vl
        ELSE Bind([ns |-> vl.val.next,
                   vs |-> vl.val.next + nl.val.len,
                   e  |-> vl.val.next + nl.val.len + vl.val.len], LAMBDA at :
          IF at.vs - 1 > Len(bytes) \/ at.e - 1 > Len(bytes)
          THEN Err([kind |-> "MalformedRecordPayload", of |-> "Params"])
          ELSE Bind([name  |-> SubSeq(bytes, at.ns, at.vs - 1),
                     value |-> SubSeq(bytes, at.vs, at.e - 1)], LAMBDA pair :
            IF ~IsUtf8(pair.name) \/ ~IsUtf8(pair.value)
            THEN Err([kind |-> "InvalidUtf8KeyValuePair"])
            ELSE pairs_from(bytes, at.e, MapInsert(pairs, pair.name, pair.value))))))

\* pairs::from_record_bytes
pairs_from_record_bytes(bytes) == pairs_from(bytes, 1, EmptyMap)

RECURSIVE pairs_to(_, _)
\* the loop of pairs::to_record_bytes over the keys in iteration order
pairs_to(pairs, keys) ==
    IF keys = <<>> THEN <<>>
    ELSE LET k == Head(keys) IN
         write_pair_len(k, pairs[k]) \o k \o pairs[k] \o pairs_to(pairs, Tail(keys))

RECURSIVE Reversed(_)
\* a sequence back to front
Reversed(seq) == IF seq = <<>> THEN <<>> ELSE Append(Reversed(Tail(seq)), Head(seq))

\* an encoding that walks the map from its last key to its first
pairs_to_record_bytes_rev(pairs) == pairs_to(pairs, Reversed(SortedKeys(DOMAIN pairs)))

\* pairs::to_record_bytes
pairs_to_record_bytes(pairs) == pairs_to(pairs, SortedKeys(DOMAIN pairs))

---------------------------------------------------------------------------
(* record/*.rs: the record variants *)

\* Role::from_record_bytes
Role_from_record_bytes(b1, b0) ==
    LET id == U16(b1, b0) IN
    IF id \in {1, 2, 3} THEN Ok(id) ELSE Err([kind |-> "UnsupportedRole", id |-> id])

\* a server that takes every FastCGI role
Role_supported_any(role) == role \in {1, 2, 3}

\* Role::supported
Role_supported(role) == role = 1

\* a from_record_bytes that refuses keep-alive before it looks at the role
BeginRequest_keep_alive_first(bytes) ==
    IF Len(bytes) # 8 THEN Err([kind |-> "MalformedRecordPayload", of |-> "BeginRequest"])
    ELSE IF bytes[3] % 2 = 1 THEN Err([kind |-> "MultiplexingUnsupported"])
    ELSE Bind(Role_from_record_bytes(bytes[1], bytes[2]), LAMBDA role :
      IF ~role.ok THEN role
      ELSE IF ~Role_supported(role.val) THEN Err([kind |-> "UnsupportedRole", id |-> role.val])
      ELSE Ok([type |-> "BeginRequest", role |-> role.val, flags |-> bytes[3]]))

\* BeginRequest::from_record_bytes
BeginRequest_from_record_bytes(bytes) ==
    IF Len(bytes) # 8 THEN Err([kind |-> "MalformedRecordPayload", of |-> "BeginRequest"])
    ELSE Bind(Role_from_record_bytes(bytes[1], bytes[2]), LAMBDA role :
      IF ~role.ok THEN role
      ELSE IF ~Role_supported(role.val) THEN Err([kind |-> "UnsupportedRole", id |-> role.val])
      ELSE Ok([type |-> "BeginRequest", role |-> role.val, flags |-> bytes[3]]))

\* keep_alive testing the bit next to KEEP_CONN
keep_alive_wrong_bit(begin) ==
    (begin.flags % (4 * MASK_FCGI_KEEP_CONN)) \div (2 * MASK_FCGI_KEEP_CONN) = 1

\* BeginRequest::keep_alive: self.flags & MASK_FCGI_KEEP_CONN == 1
keep_alive(begin) == (begin.flags % (2 * MASK_FCGI_KEEP_CONN)) \div MASK_FCGI_KEEP_CONN = 1

\* ProtocolStatus::from_record_byte
ProtocolStatus_from_record_byte(byte) ==
    CASE byte = 0 -> Ok("RequestComplete")
      [] byte = 1 -> Ok("MultiplexingUnsupported")
      [] byte = 2 -> Ok("Overloaded")
      [] byte = 3 -> Ok("UnknownRole")
      [] OTHER -> Err([kind |-> "UnspportedProtocolStatus", id |-> byte])

\* an id that writes every status as RequestComplete
ProtocolStatus_id_zero(status) == 0

\* ProtocolStatus::id
ProtocolStatus_id(status) ==
    CASE status = "RequestComplete" -> 0
      [] status = "MultiplexingUnsupported" -> 1
      [] status = "Overloaded" -> 2
      [] status = "UnknownRole" -> 3

\* EndRequest::new
EndRequest_new(exit_code, status) ==
    [type |-> "EndRequest", exit_code |-> exit_code, protocol_status |-> status]

\* EndRequest::from_record_bytes
EndRequest_from_record_bytes(bytes) ==
    IF Len(bytes) # 8 THEN Err([kind |-> "MalformedRecordPayload", of |-> "EndRequest"])
    ELSE Bind(ProtocolStatus_from_record_byte(bytes[5]), LAMBDA st :
      IF ~st.ok THEN st
      ELSE Ok(EndRequest_new(bytes[1] * 16777216 + bytes[2] * 65536 + bytes[3] * 256 + bytes[4],
                             st.val)))

\* UnknownType::new
UnknownType_new(type_id) == [type |-> "UnknownType", type_id |-> type_id]

\* UnknownType::from_record_bytes
UnknownType_from_record_bytes(bytes) ==
    IF Len(bytes) # 8 THEN Err([kind |-> "MalformedRecordPayload", of |-> "UnknownType"])
    ELSE Ok(UnknownType_new(bytes[1]))

\* AbortRequest::from_record_bytes
AbortRequest_from_record_bytes(bytes) ==
    IF bytes # <<>> THEN Err([kind |-> "MalformedRecordPayload", of |-> "AbortRequest"])
    ELSE Ok([type |-> "AbortRequest"])

\* Params / GetValues / GetValuesResult ::from_record_bytes
Pairs_record_from_record_bytes(type, bytes) ==
    Bind(pairs_from_record_bytes(bytes), LAMBDA p :
      IF ~p.ok THEN p ELSE Ok([type |-> type, pairs |-> p.val]))

\* Stdin / Stdout / Stderr / Data ::from_record_bytes
Stream_record_from_record_bytes(type, bytes) == Ok([type |-> type, bytes |-> bytes])

\* Record::from_bytes
Record_from_bytes(type_id, payload) ==
    CASE type_id = FCGI_GET_VALUES -> Pairs_record_from_record_bytes("GetValues", payload)
      [] type_id = FCGI_GET_VALUES_RESULT ->
            Pairs_record_from_record_bytes("GetValuesResult", payload)
      [] type_id = FCGI_BEGIN_REQUEST -> BeginRequest_from_record_bytes(payload)
      [] type_id = FCGI_PARAMS -> Pairs_record_from_record_bytes("Params", payload)
      [] type_id = FCGI_STDIN -> Stream_record_from_record_bytes("Stdin", payload)
      [] type_id = FCGI_DATA -> Stream_record_from_record_bytes("Data", payload)
      [] type_id = FCGI_STDOUT -> Stream_record_from_record_bytes("Stdout", payload)
      [] type_id = FCGI_STDERR -> Stream_record_from_record_bytes("Stderr", payload)
      [] type_id = FCGI_ABORT_REQUEST -> AbortRequest_from_record_bytes(payload)
      [] type_id = FCGI_END_REQUEST -> EndRequest_from_record_bytes(payload)
      [] type_id = FCGI_UNKNOWN_TYPE -> UnknownType_from_record_bytes(payload)
      [] OTHER -> Err([kind |-> "UnknownRecordType", type_id |-> type_id])

\* Record::type_id
Record_type_id(r) ==
    CASE r.type = "GetValues" -> FCGI_GET_VALUES
      [] r.type = "GetValuesResult" -> FCGI_GET_VALUES_RESULT
      [] r.type = "BeginRequest" -> FCGI_BEGIN_REQUEST
      [] r.type = "Params" -> FCGI_PARAMS
      [] r.type = "Stdin" -> FCGI_STDIN
      [] r.type = "Data" -> FCGI_DATA
      [] r.type = "Stdout" -> FCGI_STDOUT
      [] r.type = "Stderr" -> FCGI_STDERR
      [] r.type = "AbortRequest" -> FCGI_ABORT_REQUEST
      [] r.type = "EndRequest" -> FCGI_END_REQUEST
      [] r.type = "UnknownType" -> FCGI_UNKNOWN_TYPE

\* Record::write_bytes: the payload of the record
Record_write_bytes(r) ==
    CASE r.type \in {"GetValues", "GetValuesResult", "Params"} -> pairs_to_record_bytes(r.pairs)
      [] r.type \in {"Stdin", "Data", "Stdout", "Stderr"} -> r.bytes
      [] r.type = "BeginRequest" ->
            <<r.role \div 256, r.role % 256, r.flags, 0, 0, 0, 0, 0>>
      [] r.type = "EndRequest" ->
            U32Bytes(r.exit_code) \o <<ProtocolStatus_id(r.protocol_status), 0, 0, 0>>
      [] r.type = "UnknownType" -> <<r.type_id, 0, 0, 0, 0, 0, 0, 0>>
      [] r.type = "AbortRequest" -> <<>>

\* Record::is_management_record
is_management_record(r) == Record_type_id(r) \in MANAGEMENT_RECORD_TYPES

---------------------------------------------------------------------------
(* connection.rs: packets and records on a connection                     *)
(*                                                                         *)
(* A packet on the wire is [version, type_id, req_id, length, padding,     *)
(* content]: the header fields and the bytes that follow the header.  The  *)
(* stream a connection reads is a sequence of packets; reading past its    *)
(* end is the read failing (the peer closed or went silent).               *)

\* a packet as a well-behaved sender frames it
WirePacket(version, type_id, req_id, content) ==
    [version |-> version, type_id |-> type_id, req_id |-> req_id,
     length |-> Len(content), padding |-> (8 - (Len(content) % 8)) % 8,
     content |-> content]

\* Packet::is_incomplete
is_incomplete(packet) == packet.type_id \in DISCRETE_RECORD_TYPES

\* an is_empty that takes a payload of three bytes or less for none
is_empty_short(packet) == Len(packet.content) <= 3

\* Packet::is_empty
is_empty(packet) == packet.content = <<>>

\* a read_packet that takes a header of any version
read_packet_any_version(stream, pos) ==
    IF pos > Len(stream) THEN Err([kind |-> "UnexpectedSocketClose"])
    ELSE
      LET h == stream[pos] IN
      IF h.req_id > 1 THEN Err([kind |-> "MultiplexingUnsupported"])
      ELSE IF Len(h.content) < h.length THEN Err([kind |-> "UnexpectedSocketClose"])
      ELSE Ok([type_id |-> h.type_id, content |-> SubSeq(h.content, 1, h.length)])

\* Connection::read_packet on the packet at position pos of the stream
read_packet(stream, pos) ==
    IF pos > Len(stream) THEN Err([kind |-> "UnexpectedSocketClose"])
    ELSE
      LET h == stream[pos] IN
      IF h.version # 1 THEN Err([kind |-> "UnsuportedVersion", version |-> h.version])
      ELSE IF h.req_id > 1 THEN Err([kind |-> "MultiplexingUnsupported"])
      ELSE IF Len(h.content) < h.length THEN Err([kind |-> "UnexpectedSocketClose"])
      ELSE Ok([type_id |-> h.type_id, content |-> SubSeq(h.content, 1, h.length)])

RECURSIVE read_stream(_, _, _, _)
\* the loop of Connection::read_record: packets holds the payloads collected
\* so far, pos is the next packet to read
read_stream(stream, pos, expected_type_id, packets) ==
    Bind(read_packet(stream, pos), LAMBDA packet :
      IF ~packet.ok THEN [res |-> packet, next |-> pos]
      ELSE IF packet.val.type_id # expected_type_id
      THEN [res |-> Err([kind |-> "MalformedRecordStream"]), next |-> pos + 1]
      ELSE IF is_empty(packet.val)
      THEN [res |-> Record_from_bytes(expected_type_id, packets), next |-> pos + 1]
      ELSE read_stream(stream, pos + 1, expected_type_id, packets \o packet.val.content))

\* Connection::read_record from position pos: the result and the position of
\* the first packet it did not consume
read_record(stream, pos) ==
    Bind(read_packet(stream, pos), LAMBDA first :
      IF ~first.ok THEN [res |-> first, next |-> pos]
      ELSE IF is_incomplete(first.val) \/ is_empty(first.val)
      THEN [res |-> Record_from_bytes(first.val.type_id, first.val.content), next |-> pos + 1]
      ELSE read_stream(stream, pos + 1, first.val.type_id, first.val.content))

\* Connection::write_record: the one packet it writes
\* write_record as its comment "Request ID (which is always 1)" reads
write_record_req1(record) ==
    Bind(Record_write_bytes(record), LAMBDA payload :
      [version |-> 1, type_id |-> Record_type_id(record),
       req_id |-> 1,
       length |-> Len(payload) % 65536,
       padding |-> ((((8 + Len(payload)) + 7) \div 8) * 8 - (8 + Len(payload))) % 256,
       content |-> payload])

write_record(record) ==
    Bind(Record_write_bytes(record), LAMBDA payload :
      [version |-> 1, type_id |-> Record_type_id(record),
       req_id |-> IF is_management_record(record) THEN 0 ELSE 1,
       length |-> Len(payload) % 65536,
       padding |-> ((((8 + Len(payload)) + 7) \div 8) * 8 - (8 + Len(payload))) % 256,
       content |-> payload])

RECURSIVE read_all(_, _)
\* what a peer gets by calling read_record until the stream ends, as the
\* tests' assert_request does: the records, then the error that ended it
read_all(stream, pos) ==
    Bind(read_record(stream, pos), LAMBDA r :
      IF ~r.res.ok THEN <<r.res>>
      ELSE <<r.res>> \o read_all(stream, r.next))

---------------------------------------------------------------------------
(* fcgi_context.rs: the context handed to the handler and its response *)

\* FcgiContext as fast_cgi fills it in (server.rs:326-333); the query map
\* is kept as the raw QUERY_STRING value
NewContext(method, path, query_string, body) ==
    [method |-> method, path |-> path, query_string |-> query_string,
     incoming_body |-> body, outgoing_headers |-> EmptyMap, outgoing_body |-> <<>>]

\* FcgiContext::with_header
with_header(ctx, key, value) ==
    [ctx EXCEPT !.outgoing_headers = MapInsert(@, key, value)]

\* FcgiContext::with_status (the code as a decimal string)
with_status(ctx, code) == with_header(ctx, StrStatus, code)

\* FcgiContext::with_raw_body
with_raw_body(ctx, body) == [ctx EXCEPT !.outgoing_body = body]

RECURSIVE header_lines(_, _)
\* the loop of write_stdout_bytes over the headers in iteration order
header_lines(headers, keys) ==
    IF keys = <<>> THEN <<>>
    ELSE LET k == Head(keys) IN
         k \o StrColonSpace \o headers[k] \o StrNewline \o header_lines(headers, Tail(keys))

\* FcgiContext::write_stdout_bytes
write_stdout_bytes(ctx) ==
    header_lines(ctx.outgoing_headers, SortedKeys(DOMAIN ctx.outgoing_headers))
        \o StrNewline \o ctx.outgoing_body

\* The user's handler is any function FcgiContext -> FcgiContext.  The model
\* lets it be one of: the identity (the tests' |ctx| ctx), an echo of the
\* body (tests::successful_responder_flow), or a 404.
HandlerReturns(ctx) ==
    {ctx, with_raw_body(ctx, ctx.incoming_body), with_status(ctx, Str404)}

---------------------------------------------------------------------------
(* server.rs: the session on one connection, Server::fast_cgi *)

\* a handle_error that answers a multiplexed packet with nothing
handle_error_mpx_silent(e) ==
    CASE e.kind = "UnsupportedRole" ->
            <<write_record(EndRequest_new(0, "UnknownRole"))>>
      [] e.kind = "UnknownRecordType" ->
            <<write_record(UnknownType_new(e.type_id))>>
      [] OTHER -> <<>>

\* a handle_error that answers an unsupported version as it answers an
\* unknown record type
handle_error_answers_version(e) ==
    CASE e.kind = "UnsupportedRole" ->
            <<write_record(EndRequest_new(0, "UnknownRole"))>>
      [] e.kind = "MultiplexingUnsupported" ->
            <<write_record(EndRequest_new(0, "MultiplexingUnsupported"))>>
      [] e.kind = "UnknownRecordType" ->
            <<write_record(UnknownType_new(e.type_id))>>
      [] e.kind = "UnsuportedVersion" ->
            <<write_record(UnknownType_new(0))>>
      [] OTHER -> <<>>

\* a handle_error that answers every other error with an EndRequest
handle_error_answers_all(e) ==
    CASE e.kind = "UnsupportedRole" ->
            <<write_record(EndRequest_new(0, "UnknownRole"))>>
      [] e.kind = "MultiplexingUnsupported" ->
            <<write_record(EndRequest_new(0, "MultiplexingUnsupported"))>>
      [] e.kind = "UnknownRecordType" ->
            <<write_record(UnknownType_new(e.type_id))>>
      [] OTHER -> <<write_record(EndRequest_new(0, "RequestComplete"))>>

\* Server::handle_error: the packets it writes
handle_error(e) ==
    CASE e.kind = "UnsupportedRole" ->
            <<write_record(EndRequest_new(0, "UnknownRole"))>>
      [] e.kind = "MultiplexingUnsupported" ->
            <<write_record(EndRequest_new(0, "MultiplexingUnsupported"))>>
      [] e.kind = "UnknownRecordType" ->
            <<write_record(UnknownType_new(e.type_id))>>
      [] OTHER -> <<>>

\* GetValues::get_variables
get_variables(record) == SortedKeys(DOMAIN record.pairs)

\* a respond_with_values that answers every queried name with "0"
respond_with_values_echo(record) ==
    <<write_record([type |-> "GetValuesResult",
                    pairs |-> [k \in DOMAIN record.pairs |-> StrZero]])>>

\* Server::respond_with_values: the packets it writes
respond_with_values(record) ==
    <<write_record([type |-> "GetValuesResult",
                    pairs |-> IF \E i \in DOMAIN get_variables(record) :
                                      get_variables(record)[i] = FCGI_MPXS_CONNS
                              THEN MapInsert(EmptyMap, FCGI_MPXS_CONNS, StrZero)
                              ELSE EmptyMap])>>

\* Connection::expect_params / expect_stdin (impl_expect!): Ok(record),
\* Err(None) as kind "None", or Err(Some(e)); with the next read position
expect(stream, pos, type) ==
    Bind(read_record(stream, pos), LAMBDA r :
      IF ~r.res.ok THEN [res |-> Err([kind |-> "Some", e |-> r.res.err]), next |-> r.next]
      ELSE IF r.res.val.type = type THEN r
      ELSE [res |-> Err([kind |-> "None"]), next |-> r.next])

\* take_request_vars letting a missing QUERY_STRING pass as the empty string
take_request_vars_lax(map) ==
    IF REQUEST_METHOD \notin DOMAIN map THEN Err("REQUEST_METHOD")
    ELSE IF PATH_INFO \notin DOMAIN map THEN Err("PATH_INFO")
    ELSE Ok([method |-> map[REQUEST_METHOD], path |-> map[PATH_INFO],
             query_string |-> IF QUERY_STRING \in DOMAIN map THEN map[QUERY_STRING]
                              ELSE <<>>])

\* a removal that also refuses a QUERY_STRING that is present but empty
take_request_vars_nonempty(map) ==
    IF REQUEST_METHOD \notin DOMAIN map THEN Err("REQUEST_METHOD")
    ELSE IF PATH_INFO \notin DOMAIN map THEN Err("PATH_INFO")
    ELSE IF QUERY_STRING \notin DOMAIN map \/ map[QUERY_STRING] = <<>>
    THEN Err("QUERY_STRING")
    ELSE Ok([method |-> map[REQUEST_METHOD], path |-> map[PATH_INFO],
             query_string |-> map[QUERY_STRING]])

\* server.rs:297-312: the three variables fast_cgi requires, removed from
\* the Params map; Err when one is missing
take_request_vars(map) ==
    IF REQUEST_METHOD \notin DOMAIN map THEN Err("REQUEST_METHOD")
    ELSE IF PATH_INFO \notin DOMAIN map THEN Err("PATH_INFO")
    ELSE IF QUERY_STRING \notin DOMAIN map THEN Err("QUERY_STRING")
    ELSE Ok([method |-> map[REQUEST_METHOD], path |-> map[PATH_INFO],
             query_string |-> map[QUERY_STRING]])

\* how a session that does not reach the handler ends: what was written,
\* how many packets were read and why it ended
Finish(out, pos, why) == [dispatch |-> FALSE, out |-> out, pos |-> pos, why |-> why]

\* a session that reaches the handler call of server.rs:335
Dispatch(pos, context) ==
    [dispatch |-> TRUE, out |-> <<>>, pos |-> pos, why |-> "handler", context |-> context]

\* server.rs:275-333 of fast_cgi: after BeginRequest without keep-alive
fast_cgi_request(stream, pos) ==
    Bind(expect(stream, pos, "Params"), LAMBDA params :
      IF ~params.res.ok
      THEN IF params.res.err.kind = "None"
           THEN Finish(<<>>, params.next, "missing_params")
           ELSE Finish(handle_error(params.res.err.e), params.next, params.res.err.e.kind)
      ELSE Bind(expect(stream, params.next, "Stdin"), LAMBDA stdin :
        IF ~stdin.res.ok
        THEN IF stdin.res.err.kind = "None"
             THEN Finish(<<>>, stdin.next, "missing_stdin")
             ELSE Finish(handle_error(stdin.res.err.e), stdin.next, stdin.res.err.e.kind)
        ELSE Bind(take_request_vars(params.res.val.pairs), LAMBDA taken :
          IF ~taken.ok THEN Finish(<<>>, stdin.next, "missing_var")
          ELSE Dispatch(stdin.next,
                        NewContext(taken.val.method, taken.val.path,
                                   taken.val.query_string, stdin.res.val.bytes)))))

\* a fast_cgi that answers an unexpected first record with UnknownType
fast_cgi_begin_answers_unexpected(stream) ==
    Bind(read_record(stream, 1), LAMBDA first :
      IF ~first.res.ok
      THEN Finish(handle_error(first.res.err), first.next, first.res.err.kind)
      ELSE IF first.res.val.type = "GetValues"
      THEN Finish(respond_with_values(first.res.val), first.next, "get_values")
      ELSE IF first.res.val.type # "BeginRequest"
      THEN Finish(<<write_record(UnknownType_new(Record_type_id(first.res.val)))>>,
                  first.next, "unexpected_first")
      ELSE IF keep_alive(first.res.val)
      THEN Finish(<<write_record(EndRequest_new(0, "MultiplexingUnsupported"))>>,
                  first.next, "keep_alive")
      ELSE fast_cgi_request(stream, first.next))

\* a fast_cgi that reads one more record after it has refused keep-alive
fast_cgi_begin_reads_after_refusal(stream) ==
    Bind(read_record(stream, 1), LAMBDA first :
      IF ~first.res.ok
      THEN Finish(handle_error(first.res.err), first.next, first.res.err.kind)
      ELSE IF first.res.val.type = "GetValues"
      THEN Finish(respond_with_values(first.res.val), first.next, "get_values")
      ELSE IF first.res.val.type # "BeginRequest"
      THEN Finish(<<>>, first.next, "unexpected_first")
      ELSE IF keep_alive(first.res.val)
      THEN Finish(<<write_record(EndRequest_new(0, "MultiplexingUnsupported"))>>,
                  read_record(stream, first.next).next, "keep_alive")
      ELSE fast_cgi_request(stream, first.next))

\* server.rs:251-273 of fast_cgi, then the rest: everything the session does
\* up to the handler call or to its early return
fast_cgi_begin(stream) ==
    Bind(read_record(stream, 1), LAMBDA first :
      IF ~first.res.ok
      THEN Finish(handle_error(first.res.err), first.next, first.res.err.kind)
      ELSE IF first.res.val.type = "GetValues"
      THEN Finish(respond_with_values(first.res.val), first.next, "get_values")
      ELSE IF first.res.val.type # "BeginRequest"
      THEN Finish(<<>>, first.next, "unexpected_first")
      ELSE IF keep_alive(first.res.val)
      THEN Finish(<<write_record(EndRequest_new(0, "MultiplexingUnsupported"))>>,
                  first.next, "keep_alive")
      ELSE fast_cgi_request(stream, first.next))

\* server.rs:337-344 of fast_cgi: the packets written for the handler's
\* response
fast_cgi_respond(response) ==
    <<write_record([type |-> "Stdout", bytes |-> write_stdout_bytes(response)]),
      write_record(EndRequest_new(0, "RequestComplete"))>>

---------------------------------------------------------------------------
(* The record under test of the codec specification below *)

\* no record is being taken through the codec
NoCodec ==
    [st |-> "idle", record |-> <<>>, bytes |-> <<>>, decoded |-> <<>>,
     packets |-> <<>>, back |-> <<>>, inserted |-> <<>>,
     frames |-> <<>>, pos |-> 1, starts |-> <<>>]


\* no Response is being built: Response::default() not yet called
NoResp == [st |-> "idle", response |-> <<>>, calls |-> <<>>, stdout |-> <<>>]

\* ServerConfig::default(): no file server, no router, no fallback
NoConfig == [file_server |-> "absent", router |-> "absent", fallback |-> "absent"]

\* no pipe is being run
NoPipe == [st |-> "idle", first |-> "", second |-> "", ctx |-> <<>>, ran |-> <<>>,
           result |-> <<>>]
---------------------------------------------------------------------------
(* What peers send *)

BeginResp == WirePacket(1, FCGI_BEGIN_REQUEST, 1, <<0, 1, 0, 0, 0, 0, 0, 0>>)

BeginKeep == WirePacket(1, FCGI_BEGIN_REQUEST, 1, <<0, 1, 1, 0, 0, 0, 0, 0>>)

BeginAuth == WirePacket(1, FCGI_BEGIN_REQUEST, 1, <<0, 2, 0, 0, 0, 0, 0, 0>>)

\* tests::basic_params
BasicParamsMap ==
    MapInsert(MapInsert(MapInsert(EmptyMap, REQUEST_METHOD, StrGET), PATH_INFO, StrSlash),
              QUERY_STRING, <<>>)

ParamsBasic == WirePacket(1, FCGI_PARAMS, 1, pairs_to_record_bytes(BasicParamsMap))

ParamsNoQuery ==
    WirePacket(1, FCGI_PARAMS, 1, pairs_to_record_bytes(MapRemove(BasicParamsMap, QUERY_STRING)))

ParamsEnd == WirePacket(1, FCGI_PARAMS, 1, <<>>)

StdinBar == WirePacket(1, FCGI_STDIN, 1, StrBAR)

StdinEnd == WirePacket(1, FCGI_STDIN, 1, <<>>)

\* tests::get_values
GetValuesQuery ==
    WirePacket(1, FCGI_GET_VALUES, 0,
               pairs_to_record_bytes(MapInsert(MapInsert(EmptyMap, FCGI_MPXS_CONNS, <<>>),
                                               VALUE_WE_DONT_KNOW, <<>>)))

BadVersion == WirePacket(2, FCGI_BEGIN_REQUEST, 1, <<0, 1, 0, 0, 0, 0, 0, 0>>)

\* a packet of request 2: multiplexed
ReqId2 == WirePacket(1, FCGI_BEGIN_REQUEST, 2, <<0, 1, 0, 0, 0, 0, 0, 0>>)

\* a packet whose type is no FastCGI record type
UnknownTypePacket == WirePacket(1, 12, 1, <<>>)

\* a BeginRequest body one byte short
BeginShort == WirePacket(1, FCGI_BEGIN_REQUEST, 1, <<0, 1, 0, 0, 0, 0, 0>>)

\* a Params pair whose one-byte name is not UTF-8
ParamsBadUtf8 == WirePacket(1, FCGI_PARAMS, 1, <<1, 0, 255>>)

\* a BeginRequest of role Filter
BeginFilter == WirePacket(1, FCGI_BEGIN_REQUEST, 1, <<0, 3, 0, 0, 0, 0, 0, 0>>)

\* a BeginRequest whose role code (260) is no FastCGI role
BeginOtherRole == WirePacket(1, FCGI_BEGIN_REQUEST, 1, <<1, 4, 0, 0, 0, 0, 0, 0>>)

\* a packet of request 2 whose version is not 1 either
BadVersionReqId2 == WirePacket(2, FCGI_PARAMS, 2, <<>>)

\* a packet of no FastCGI record type that carries a payload
UnknownTypeFull == WirePacket(1, 12, 1, <<0>>)

\* GetValues asking for nothing
GetValuesEmpty == WirePacket(1, FCGI_GET_VALUES, 0, <<>>)

\* GetValues asking only for a name the server does not know
GetValuesUnknown ==
    WirePacket(1, FCGI_GET_VALUES, 0,
               pairs_to_record_bytes(MapInsert(EmptyMap, VALUE_WE_DONT_KNOW, <<>>)))

\* the packets a peer may send, in any order
PeerPackets ==
    {BeginResp, BeginKeep, BeginAuth, ParamsBasic, ParamsNoQuery, ParamsEnd,
     StdinBar, StdinEnd, GetValuesQuery, BadVersion, ReqId2, UnknownTypePacket,
     BeginShort, ParamsBadUtf8}

\* the packets of a peer the server has to refuse or to answer without a
\* handler call, with those of one good request, in any order
RefusedPackets ==
    {BeginResp, ParamsBasic, ParamsEnd, StdinEnd,
     BeginAuth, BeginFilter, BeginOtherRole,
     BadVersion, ReqId2, BadVersionReqId2,
     UnknownTypePacket, UnknownTypeFull,
     GetValuesQuery, GetValuesEmpty, GetValuesUnknown}

\* the packets of a peer whose request is incomplete or whose fixed-width
\* records are malformed, with those of one good request, in any order:
\* Params without one of the three variables; BeginRequest of 7 and of 9
\* bytes, EndRequest of 7 bytes, UnknownType of 7 bytes, AbortRequest of 1
\* byte; EndRequest with protocol status 4; a packet of version 2 and a
\* Params pair that is not UTF-8
MalformedPackets ==
    {BeginResp, ParamsBasic, ParamsEnd, StdinEnd, ParamsNoQuery, BeginShort,
     BadVersion, ParamsBadUtf8}
    \cup {WirePacket(1, FCGI_PARAMS, 1, pairs_to_record_bytes(MapRemove(BasicParamsMap, k))) :
            k \in {REQUEST_METHOD, PATH_INFO}}
    \cup {WirePacket(1, FCGI_BEGIN_REQUEST, 1, <<0, 1, 0, 0, 0, 0, 0, 0, 0>>),
          WirePacket(1, FCGI_END_REQUEST, 1, <<0, 0, 0, 0, 0, 0, 0>>),
          WirePacket(1, FCGI_UNKNOWN_TYPE, 0, <<12, 0, 0, 0, 0, 0, 0>>),
          WirePacket(1, FCGI_ABORT_REQUEST, 1, <<0>>),
          WirePacket(1, FCGI_END_REQUEST, 1, <<0, 0, 0, 0, 4, 0, 0, 0>>)}

\* every stream of at most MaxPackets packets
Inputs == UNION {[1..n -> PeerPackets] : n \in 0..MaxPackets}

\* every stream of at most MaxPackets packets of such a peer
RefusedInputs == UNION {[1..n -> RefusedPackets] : n \in 0..MaxPackets}

\* the streams peers send to a running server
Scripts ==
    {<<>>,
     <<GetValuesQuery>>,
     <<BeginKeep, ParamsBasic, ParamsEnd, StdinEnd>>,
     <<BeginResp, ParamsBasic, ParamsEnd, StdinBar, StdinEnd>>,
     <<BadVersion>>,
     <<BeginAuth>>,
     <<UnknownTypePacket>>,
     <<BeginResp, ParamsBadUtf8, ParamsEnd>>}

---------------------------------------------------------------------------
(* The sessions run by the worker pool *)

\* a connection nobody has accepted yet
NoConn ==
    [st |-> "none", input |-> <<>>, pos |-> 1, out |-> <<>>, calls |-> 0,
     why |-> "", context |-> <<>>, silent |-> FALSE, worker |-> 0]

\* a connection submitted to the pool by pool.execute (server.rs:203)
Submitted(input) == [NoConn EXCEPT !.st = "queued", !.input = input]

Ids == 1..MaxConns

\* connections whose task a pool thread is running
Active == {c \in Ids : conns[c].st \in {"reading", "handler"}}

\* connections whose task waits in the pool's queue
Queued == {c \in Ids : conns[c].st = "queued"}

\* a pool join that returns without waiting
PoolNeverWaits == TRUE

\* pool.join() has nothing to wait for: no task is running or queued
\* (server.rs:240-243, shutdown_threadpool)
PoolIdle == \A c \in Ids : conns[c].st \notin {"queued", "reading", "handler"}

\* a SHUTDOWN arm that falls back into the accept loop
AfterShutdownJoinLoops == "accept"

\* where the SHUTDOWN arm goes after shutdown_threadpool (server.rs:216-217)
AfterShutdownJoin == "send"

\* the acceptor thread has not finished
Running == [how |-> "running", reason |-> "", cause |-> "", idle |-> FALSE]

\* server_loop returned reason; idle tells whether the pool had no task
\* left, running or queued, at that moment
Returned(reason, cause) ==
    [how |-> "returned", reason |-> reason, cause |-> cause, idle |-> PoolIdle]

\* the acceptor thread unwound from a panic
Panicked(cause) == [how |-> "panicked", reason |-> "", cause |-> cause, idle |-> PoolIdle]

\* a session whose failure is returned to the acceptor loop and ends it
SessionErrorPropagates(r, e) ==
    IF ~r.dispatch /\ r.why \notin {"get_values", "keep_alive"}
    THEN Returned("Err", "peer")
    ELSE e

\* what the end of a session does to the acceptor thread: nothing, the
\* task runs on a pool thread and fast_cgi returns () (server.rs:203-205)
SessionEffect(r, e) == e

\* the pool threads that are running no task
FreeWorkers == (1..NumWorkers) \ {conns[c].worker : c \in Active}

\* a pool that starts a thread for every queued task, however many run
WorkerStartUnbounded(c) ==
    /\ conns[c].st = "queued"
    /\ \A d \in Queued : c <= d
    /\ conns' = [conns EXCEPT ![c].st = "reading",
                              ![c].worker = IF FreeWorkers = {} THEN NumWorkers
                                            ELSE CHOOSE w \in FreeWorkers :
                                                     \A v \in FreeWorkers : w <= v]
    /\ UNCHANGED <<pending, arrived, acc, events, woken, exit, chan, hpc, hres, codec, resp, config, pipe, readable>>

\* a free pool thread takes the oldest queued task and calls fast_cgi; the
\* threads being interchangeable, it is the free thread of lowest index
WorkerStart(c) ==
    /\ conns[c].st = "queued"
    /\ \A d \in Queued : c <= d
    /\ Cardinality(Active) < NumWorkers
    /\ conns' = [conns EXCEPT ![c].st = "reading",
                              ![c].worker = CHOOSE w \in FreeWorkers :
                                                \A v \in FreeWorkers : w <= v]
    /\ UNCHANGED <<pending, arrived, acc, events, woken, exit, chan, hpc, hres, codec, resp, config, pipe, readable>>

\* the socket of an accepted connection has a bounded read timeout: a read
\* on which no byte arrives fails instead of waiting for ever
ReadTimeout == TRUE

\* what a peer does once it has sent its packets: it closes (FALSE) or it
\* keeps the connection open and stays silent (TRUE); the two differ only
\* when the session reads past the last packet
Silences(input) ==
    IF fast_cgi_begin(input).why = "UnexpectedSocketClose" THEN BOOLEAN ELSE {FALSE}

\* a fast_cgi whose read waits for ever for the bytes of a silent peer
FastCgiBeginWaits(c) ==
    /\ conns[c].st = "reading"
    /\ \E r \in {fast_cgi_begin(conns[c].input)} :
          /\ ~(conns[c].silent /\ r.why = "UnexpectedSocketClose")
          /\ conns' = [conns EXCEPT ![c] =
                    IF r.dispatch
                    THEN [@ EXCEPT !.st = "handler", !.pos = r.pos, !.why = r.why,
                                   !.calls = @ + 1, !.context = r.context]
                    ELSE [@ EXCEPT !.st = "done", !.worker = 0, !.pos = r.pos, !.why = r.why,
                                   !.out = r.out]]
          /\ exit' = SessionEffect(r, exit)
    /\ UNCHANGED <<pending, arrived, acc, events, woken, chan, hpc, hres, codec, resp, config, pipe, readable>>

\* fast_cgi up to the handler call (the handler is invoked) or to its return
\* (the connection is dropped); a read past the last packet of a silent
\* peer returns, with an error, when the read timeout expires
FastCgiBegin(c) ==
    /\ conns[c].st = "reading"
    /\ \E r \in {fast_cgi_begin(conns[c].input)} :
          /\ (conns[c].silent /\ r.why = "UnexpectedSocketClose") => ReadTimeout
          /\ conns' = [conns EXCEPT ![c] =
                    IF r.dispatch
                    THEN [@ EXCEPT !.st = "handler", !.pos = r.pos, !.why = r.why,
                                   !.calls = @ + 1, !.context = r.context]
                    ELSE [@ EXCEPT !.st = "done", !.worker = 0, !.pos = r.pos, !.why = r.why,
                                   !.out = r.out]]
          /\ exit' = SessionEffect(r, exit)
    /\ UNCHANGED <<pending, arrived, acc, events, woken, chan, hpc, hres, codec, resp, config, pipe, readable>>

\* the handler returns a response; fast_cgi writes it and returns
HandlerReturn(c) ==
    /\ conns[c].st = "handler"
    /\ \E response \in HandlerReturns(conns[c].context) :
          conns' = [conns EXCEPT ![c].st = "done", ![c].worker = 0, ![c].why = "responded",
                                 ![c].out = fast_cgi_respond(response)]
    /\ UNCHANGED <<pending, arrived, acc, events, woken, exit, chan, hpc, hres, codec, resp, config, pipe, readable>>

\* the handler panics: nothing in fast_cgi catches it, the pool thread
\* unwinds and drops the connection
HandlerPanic(c) ==
    /\ conns[c].st = "handler"
    /\ conns' = [conns EXCEPT ![c].st = "done", ![c].worker = 0, ![c].why = "panicked"]
    /\ UNCHANGED <<pending, arrived, acc, events, woken, exit, chan, hpc, hres, codec, resp, config, pipe, readable>>

Worker(c) == WorkerStart(c) \/ FastCgiBegin(c) \/ HandlerReturn(c) \/ HandlerPanic(c)

---------------------------------------------------------------------------
(* server.rs: the acceptor thread, Server::server_loop *)

\* the arm of `match event.token()` taken for the next event of
\* self.events.iter(), or back to poll when the iteration is over
EventDispatch(evs) ==
    IF evs = <<>> THEN "poll"
    ELSE IF Head(evs) = SERVER THEN "accept"
    ELSE "join_shutdown"

\* the orders in which poll can report the ready tokens
ReadyOrders(ready) ==
    {evs \in UNION {[1..n -> ready] : n \in 1..2} :
        /\ Len(evs) = Cardinality(ready)
        /\ \A i, j \in 1..Len(evs) : i # j => evs[i] # evs[j]}

\* the tokens poll has an event for: the listener when a connection has
\* arrived since the last event for it was delivered (mio reports a
\* readiness once, and again only after new activity), the waker when
\* wake() was called
Ready == (IF readable THEN {SERVER} ELSE {}) \cup (IF woken THEN {SHUTDOWN} ELSE {})

\* server.rs:181: the pool is built; spawning its threads can panic
BuildPool ==
    /\ acc = "start"
    /\ \E built \in BOOLEAN :
          IF built
          THEN acc' = "poll" /\ exit' = exit
          ELSE acc' = "exited" /\ exit' = Panicked("pool_build")
    /\ UNCHANGED <<conns, pending, arrived, events, woken, chan, hpc, hres, codec, resp, config, pipe, readable>>

\* server.rs:184-185, 193-194: poll returns events and the loop takes the
\* first of them
Poll ==
    /\ acc = "poll"
    /\ \E evs \in ReadyOrders(Ready) :
          /\ acc' = EventDispatch(evs)
          /\ events' = Tail(evs)
    /\ woken' = FALSE
    /\ readable' = FALSE
    /\ UNCHANGED <<conns, pending, arrived, exit, chan, hpc, hres, codec, resp, config, pipe>>

\* server.rs:186-190: poll fails
PollErr ==
    /\ acc = "poll"
    /\ acc' = "join_err"
    /\ exit' = [exit EXCEPT !.cause = "poll"]
    /\ UNCHANGED <<conns, pending, arrived, events, woken, chan, hpc, hres, codec, resp, config, pipe, readable>>

\* an accept loop that hands every stream to the pool as the first
\* connection again
NextConnIdFirst == CHOOSE c \in Ids : \A d \in Ids : c <= d

\* the connection the next successful accept returns
NextConnId == arrived - pending + 1

\* an accept arm that takes one stream for each readiness event and then
\* goes on to the next event
AcceptOnce ==
    /\ acc = "accept"
    /\ pending > 0
    /\ pending' = pending - 1
    /\ \E converted \in BOOLEAN :
          IF converted
          THEN /\ \E input \in Scripts : \E silent \in Silences(input) :
                     conns' = [conns EXCEPT ![NextConnId] =
                                    [Submitted(input) EXCEPT !.silent = silent]]
               /\ acc' = EventDispatch(events)
               /\ events' = IF events = <<>> THEN <<>> ELSE Tail(events)
               /\ exit' = exit
          ELSE /\ conns' = [conns EXCEPT ![NextConnId].st = "dropped"]
               /\ acc' = "exited"
               /\ exit' = Returned("Err", "convert")
               /\ events' = events
    /\ UNCHANGED <<arrived, woken, chan, hpc, hres, codec, resp, config, pipe, readable>>

\* server.rs:196-206: accept returns a stream; it becomes a Connection and
\* its task is submitted to the pool, or the conversion fails and
\* server_loop returns at once
Accept ==
    /\ acc = "accept"
    /\ pending > 0
    /\ pending' = pending - 1
    /\ \E converted \in BOOLEAN :
          IF converted
          THEN /\ \E input \in Scripts : \E silent \in Silences(input) :
                     conns' = [conns EXCEPT ![NextConnId] =
                                    [Submitted(input) EXCEPT !.silent = silent]]
               /\ UNCHANGED <<acc, exit>>
          ELSE /\ conns' = [conns EXCEPT ![NextConnId].st = "dropped"]
               /\ acc' = "exited"
               /\ exit' = Returned("Err", "convert")
    /\ UNCHANGED <<arrived, events, woken, chan, hpc, hres, codec, resp, config, pipe, readable>>

\* server.rs:207: accept reports WouldBlock; the inner loop breaks and the
\* event iteration goes on
AcceptWouldBlock ==
    /\ acc = "accept"
    /\ pending = 0
    /\ acc' = EventDispatch(events)
    /\ events' = IF events = <<>> THEN <<>> ELSE Tail(events)
    /\ UNCHANGED <<conns, pending, arrived, woken, exit, chan, hpc, hres, codec, resp, config, pipe, readable>>

\* server.rs:208-212: accept fails with another error
AcceptErr ==
    /\ acc = "accept"
    /\ acc' = "join_err"
    /\ exit' = [exit EXCEPT !.cause = "accept"]
    /\ UNCHANGED <<conns, pending, arrived, events, woken, chan, hpc, hres, codec, resp, config, pipe, readable>>

\* server.rs:188-189, 210-211, 216: shutdown_threadpool returns once the pool
\* is idle; an error exit returns Err, the shutdown arm goes on to send
JoinPool ==
    /\ acc \in {"join_shutdown", "join_err"}
    /\ PoolIdle
    /\ IF acc = "join_err"
       THEN acc' = "exited" /\ exit' = Returned("Err", exit.cause)
       ELSE acc' = AfterShutdownJoin /\ exit' = exit
    /\ UNCHANGED <<conns, pending, arrived, events, woken, chan, hpc, hres, codec, resp, config, pipe, readable>>

\* server.rs:217-232: send on the rendezvous channel returns when the
\* receiver took the message, and fails when the receiver is gone
SendShutdown ==
    /\ acc = "send"
    /\ chan = "taken" \/ hpc \in {"stopped", "joined", "dropped"}
    /\ acc' = "exited"
    /\ exit' = IF chan = "taken" THEN Returned("Normal", "shutdown") ELSE Panicked("send")
    /\ UNCHANGED <<conns, pending, arrived, events, woken, chan, hpc, hres, codec, resp, config, pipe, readable>>

Acceptor ==
    \/ BuildPool
    \/ Poll
    \/ PollErr
    \/ Accept
    \/ AcceptWouldBlock
    \/ AcceptErr
    \/ JoinPool
    \/ SendShutdown

\* a peer connects to the listening socket
PeerConnect ==
    /\ exit.how = "running"
    /\ arrived < MaxConns
    /\ arrived' = arrived + 1
    /\ pending' = pending + 1
    /\ readable' = TRUE
    /\ UNCHANGED <<conns, acc, events, woken, exit, chan, hpc, hres, codec, resp, config, pipe>>

---------------------------------------------------------------------------
(* server.rs: the handle returned by start, ServerHandle *)

\* a recv that returns only on a message and never on a closed channel
RecvOnlyOnSend == acc = "send"

\* observe_shutdown.recv() returns: the acceptor is sending, or its end of
\* the channel is gone because the thread has finished (server.rs:163)
RecvReturns == acc = "send" \/ exit.how # "running"

\* a join that reports a panic as an error exit
JoinResultDropsPanic(e) == IF e.how = "returned" THEN e.reason ELSE "Err"

\* what ServerHandle::join makes of the thread's outcome (server.rs:133-142)
JoinResult(e) == IF e.how = "returned" THEN e.reason ELSE "Panic"

\* a stop that wakes the acceptor and returns without waiting in recv, so
\* that the receiver is dropped
StopWakeAndLeave ==
    /\ hpc = "held"
    /\ \E ok \in BOOLEAN :
          IF ok
          THEN woken' = TRUE /\ hpc' = "stopped" /\ hres' = hres
          ELSE woken' = woken /\ hpc' = "stopped" /\ hres' = "WakeFailed"
    /\ UNCHANGED <<conns, pending, arrived, acc, events, exit, chan, codec, resp, config, pipe, readable>>

\* server.rs:155-157 of stop: wake the acceptor; return at once when the
\* wake fails
StopWake ==
    /\ hpc = "held"
    /\ \E ok \in BOOLEAN :
          IF ok
          THEN woken' = TRUE /\ hpc' = "stop_recv" /\ hres' = hres
          ELSE woken' = woken /\ hpc' = "stopped" /\ hres' = "WakeFailed"
    /\ UNCHANGED <<conns, pending, arrived, acc, events, exit, chan, codec, resp, config, pipe, readable>>

\* server.rs:163 of stop: recv returns, with the message or with an error
\* that is ignored, and stop returns
StopRecv ==
    /\ hpc = "stop_recv"
    /\ RecvReturns
    /\ hpc' = "stopped"
    /\ IF acc = "send"
       THEN chan' = "taken" /\ hres' = "Rendezvous"
       ELSE chan' = chan /\ hres' = "RecvErr"
    /\ UNCHANGED <<conns, pending, arrived, acc, events, woken, exit, codec, resp, config, pipe, readable>>

\* server.rs:132-133: join is called and blocks on the thread
JoinCall ==
    /\ hpc = "held"
    /\ hpc' = "join"
    /\ UNCHANGED <<conns, pending, arrived, acc, events, woken, exit, chan, hres, codec, resp, config, pipe, readable>>

\* server.rs:133-142: the thread has finished and join returns the reason
JoinReturn ==
    /\ hpc = "join"
    /\ acc = "exited"
    /\ hpc' = "joined"
    /\ hres' = JoinResult(exit)
    /\ UNCHANGED <<conns, pending, arrived, acc, events, woken, exit, chan, codec, resp, config, pipe, readable>>

\* the owner drops the ServerHandle without calling stop or join: the waker
\* and the receiver are dropped and the acceptor thread is detached
\* (server_handle.rs:19-24; the struct has no Drop of its own)
HandleDrop ==
    /\ hpc = "held"
    /\ hpc' = "dropped"
    /\ UNCHANGED <<conns, pending, arrived, acc, events, woken, exit, chan, hres, codec, resp, config, pipe, readable>>

Handle == StopWake \/ StopRecv \/ JoinCall \/ JoinReturn \/ HandleDrop

---------------------------------------------------------------------------
(* The server: start has returned a handle and spawned the acceptor *)

Init ==
    /\ conns = [c \in Ids |-> NoConn]
    /\ pending = 0
    /\ arrived = 0
    /\ acc = "start"
    /\ events = <<>>
    /\ woken = FALSE
    /\ exit = Running
    /\ chan = "open"
    /\ hpc = "held"
    /\ hres = "None"
    /\ codec = NoCodec
    /\ resp = NoResp
    /\ config = NoConfig
    /\ pipe = NoPipe
    /\ readable = FALSE

Next ==
    \/ Acceptor
    \/ PeerConnect
    \/ \E c \in Ids : Worker(c)
    \/ Handle

Spec == Init /\ [][Next]_vars

\* the steps the acceptor thread takes by itself when nothing fails
AcceptorStep ==
    BuildPool \/ Poll \/ Accept \/ AcceptWouldBlock \/ JoinPool \/ SendShutdown

\* threads that can run do run, every handler call ends, and a recv that can
\* return does
FairSpec ==
    /\ Spec
    /\ WF_vars(AcceptorStep)
    /\ \A c \in Ids : WF_vars(Worker(c))
    /\ WF_vars(StopRecv)

---------------------------------------------------------------------------
(* One connection with every stream a peer can send *)

InitConn ==
    /\ \E input \in Inputs : conns = [c \in Ids |-> IF c = 1 THEN Submitted(input) ELSE NoConn]
    /\ pending = 0
    /\ arrived = 1
    /\ acc = "poll"
    /\ events = <<>>
    /\ woken = FALSE
    /\ exit = Running
    /\ chan = "open"
    /\ hpc = "held"
    /\ hres = "None"
    /\ codec = NoCodec
    /\ resp = NoResp
    /\ config = NoConfig
    /\ pipe = NoPipe
    /\ readable = FALSE

NextConn == \E c \in Ids : Worker(c)

SpecConn == InitConn /\ [][NextConn]_vars

\* One connection with every stream a peer to be refused can send
InitRefused ==
    /\ \E input \in RefusedInputs :
          conns = [c \in Ids |-> IF c = 1 THEN Submitted(input) ELSE NoConn]
    /\ pending = 0
    /\ arrived = 1
    /\ acc = "poll"
    /\ events = <<>>
    /\ woken = FALSE
    /\ exit = Running
    /\ chan = "open"
    /\ hpc = "held"
    /\ hres = "None"
    /\ codec = NoCodec
    /\ resp = NoResp
    /\ config = NoConfig
    /\ pipe = NoPipe
    /\ readable = FALSE

SpecRefused == InitRefused /\ [][NextConn]_vars

\* every stream of at most MaxPackets of the packets above
MalformedInputs == UNION {[1..n -> MalformedPackets] : n \in 0..MaxPackets}

\* one connection of such a peer, already in the pool's queue
InitMalformed ==
    /\ \E input \in MalformedInputs :
          conns = [c \in Ids |-> IF c = 1 THEN Submitted(input) ELSE NoConn]
    /\ pending = 0
    /\ arrived = 1
    /\ acc = "poll"
    /\ events = <<>>
    /\ woken = FALSE
    /\ exit = Running
    /\ chan = "open"
    /\ hpc = "held"
    /\ hres = "None"
    /\ codec = NoCodec
    /\ resp = NoResp
    /\ config = NoConfig
    /\ pipe = NoPipe
    /\ readable = FALSE

SpecMalformed == InitMalformed /\ [][NextConn]_vars

\* a BeginRequest of request 1 with this role code and this flags byte
BeginWith(role, flags) ==
    WirePacket(1, FCGI_BEGIN_REQUEST, 1, <<role \div 256, role % 256, flags, 0, 0, 0, 0, 0>>)

\* the role codes and the flags bytes the peer tries
BeginRoles == {0, 1, 2, 3, 260}
BeginFlags == {0, 1, 2, 3, 254, 255}

\* a BeginRequest alone or followed by a whole request
BeginInputs ==
    {<<BeginWith(role, flags)>> \o rest :
        role \in BeginRoles, flags \in BeginFlags,
        rest \in {<<>>, <<ParamsBasic, ParamsEnd, StdinBar, StdinEnd>>}}

\* one accepted connection whose first packet is a BeginRequest
InitBegin ==
    /\ \E input \in BeginInputs :
          conns = [c \in Ids |-> IF c = 1 THEN Submitted(input) ELSE NoConn]
    /\ pending = 0
    /\ arrived = 1
    /\ acc = "poll"
    /\ events = <<>>
    /\ woken = FALSE
    /\ exit = Running
    /\ chan = "open"
    /\ hpc = "held"
    /\ hres = "None"
    /\ codec = NoCodec
    /\ resp = NoResp
    /\ config = NoConfig
    /\ pipe = NoPipe
    /\ readable = FALSE

SpecBegin == InitBegin /\ [][NextConn]_vars

---------------------------------------------------------------------------
(* Records taken through the codec and the framing layer, as the round-trip *)
(* tests of connection.rs do: write_bytes then from_bytes, write_record     *)
(* then read_record                                                         *)

\* the record r, about to be encoded
Drawn(r) == [NoCodec EXCEPT !.st = "drawn", !.record = r]

\* n bytes, all of them c
Filled(n, c) == [i \in 1..n |-> c]

\* the lengths of the names and values of the pairs tried: around the
\* one-byte limit of 127
PairLens == {0, 127, 128, 200}

\* the lengths of the stream payloads tried: around the 65535 bytes one
\* packet can announce
PayloadLens == {0, 1, 3, 8, 65535, 65536}

\* the maps of the pairs records tried: a name of 'a's with a value of 'b's
\* for all lengths, the tests' parameters, and the empty map
PairMaps ==
    {MapInsert(EmptyMap, Filled(nl, 97), Filled(vl, 98)) : nl \in PairLens, vl \in PairLens}
        \cup {EmptyMap, BasicParamsMap}

\* the records the codec is tried on: every variant of Record (exit codes
\* up to the largest integer the checker holds)
Records ==
    {[type |-> "BeginRequest", role |-> role, flags |-> flags] :
        role \in {1, 2, 3}, flags \in {0, 1, 2, 255}}
    \cup {EndRequest_new(code, status) :
            code \in {0, 1, 256, 2147483647},
            status \in {"RequestComplete", "MultiplexingUnsupported", "Overloaded",
                        "UnknownRole"}}
    \cup {UnknownType_new(t) : t \in {0, 12, 255}}
    \cup {[type |-> "AbortRequest"]}
    \cup {[type |-> type, pairs |-> m] :
            type \in {"Params", "GetValues", "GetValuesResult"}, m \in PairMaps}
    \cup {[type |-> type, bytes |-> Filled(n, 0)] :
            type \in {"Stdin", "Stdout", "Stderr", "Data"}, n \in PayloadLens}

\* Record::write_bytes (record.rs:114-128) on the record drawn
WriteBytes ==
    /\ codec.st = "drawn"
    /\ codec' = [codec EXCEPT !.st = "encoded", !.bytes = Record_write_bytes(codec.record)]
    /\ UNCHANGED <<conns, pending, arrived, acc, events, woken, exit, chan, hpc, hres, resp, config, pipe, readable>>

\* Record::from_bytes (record.rs:93-112) on the bytes written, with the
\* record's type id
FromBytes ==
    /\ codec.st = "encoded"
    /\ codec' = [codec EXCEPT !.st = "decoded",
                              !.decoded = Record_from_bytes(Record_type_id(codec.record),
                                                            codec.bytes)]
    /\ UNCHANGED <<conns, pending, arrived, acc, events, woken, exit, chan, hpc, hres, resp, config, pipe, readable>>

\* a write_record that ends what it wrote with an empty packet of the type
WriteRecordTrailer ==
    /\ codec.st = "drawn"
    /\ codec' = [codec EXCEPT !.st = "written",
                              !.packets = <<write_record(codec.record),
                                            [write_record(codec.record) EXCEPT
                                                !.length = 0, !.padding = 0,
                                                !.content = <<>>]>>]
    /\ UNCHANGED <<conns, pending, arrived, acc, events, woken, exit, chan, hpc, hres, resp, config, pipe, readable>>

\* Connection::write_record (connection.rs:149-183) on the record drawn:
\* the packets it puts on the wire
WriteRecord ==
    /\ codec.st = "drawn"
    /\ codec' = [codec EXCEPT !.st = "written", !.packets = <<write_record(codec.record)>>]
    /\ UNCHANGED <<conns, pending, arrived, acc, events, woken, exit, chan, hpc, hres, resp, config, pipe, readable>>

\* Connection::read_record (connection.rs:115-147) by the peer on the
\* packets written, after which the writer closes
ReadRecord ==
    /\ codec.st = "written"
    /\ codec' = [codec EXCEPT !.st = "read", !.back = read_record(codec.packets, 1).res]
    /\ UNCHANGED <<conns, pending, arrived, acc, events, woken, exit, chan, hpc, hres, resp, config, pipe, readable>>

InitCodec ==
    /\ conns = [c \in Ids |-> NoConn]
    /\ pending = 0
    /\ arrived = 0
    /\ acc = "start"
    /\ events = <<>>
    /\ woken = FALSE
    /\ exit = Running
    /\ chan = "open"
    /\ hpc = "held"
    /\ hres = "None"
    /\ \E r \in Records : codec = Drawn(r)
    /\ resp = NoResp
    /\ config = NoConfig
    /\ pipe = NoPipe
    /\ readable = FALSE

NextCodec == WriteBytes \/ FromBytes \/ WriteRecord \/ ReadRecord

SpecCodec == InitCodec /\ [][NextCodec]_vars

---------------------------------------------------------------------------
(* connection.rs: read_packet on the bytes of the stream *)

\* the most packets the peer puts on the stream
MaxFrames == 2

\* a packet as the peer lays it out: the eight header bytes, the content and
\* the padding; the peer chooses the padding bytes and the reserved byte
FrameBytes(f) ==
    <<f.version, f.type_id, f.req_id \div 256, f.req_id % 256,
      Len(f.content) \div 256, Len(f.content) % 256, Len(f.padding), f.reserved>>
        \o f.content \o f.padding

\* the packets the peer sends in this specification
Frames ==
    [version : {1}, type_id : {FCGI_PARAMS, FCGI_STDIN}, req_id : {1},
     content : {<<>>, <<7, 9>>}, padding : {<<>>, <<0>>, <<9, 8>>}, reserved : {0, 7}]
        \cup {[version |-> 2, type_id |-> FCGI_STDIN, req_id |-> 1,
               content |-> <<7>>, padding |-> <<9>>, reserved |-> 0]}

RECURSIVE StreamBytes(_)
\* the bytes of a sequence of packets
StreamBytes(fs) == IF fs = <<>> THEN <<>> ELSE FrameBytes(Head(fs)) \o StreamBytes(Tail(fs))

\* a read_packet that leaves the padding on the stream
read_packet_bytes_keeps_padding(bytes, pos) ==
    IF pos + 7 > Len(bytes)
    THEN [res |-> Err([kind |-> "UnexpectedSocketClose"]), next |-> Len(bytes) + 1]
    ELSE
      LET version == bytes[pos]
          type_id == bytes[pos + 1]
          req_id == U16(bytes[pos + 2], bytes[pos + 3])
          length == U16(bytes[pos + 4], bytes[pos + 5])
          body == pos + 8
      IN
      IF version # 1
      THEN [res |-> Err([kind |-> "UnsuportedVersion", version |-> version]), next |-> body]
      ELSE IF req_id > 1
      THEN [res |-> Err([kind |-> "MultiplexingUnsupported"]), next |-> body]
      ELSE IF body + length - 1 > Len(bytes)
      THEN [res |-> Err([kind |-> "UnexpectedSocketClose"]), next |-> Len(bytes) + 1]
      ELSE [res |-> Ok([type_id |-> type_id, content |-> SubSeq(bytes, body, body + length - 1)]),
            next |-> body + length]

\* Connection::read_packet on the bytes of the stream from position pos: the
\* result, and the position of the first byte it has not consumed.
\* read_exact fails when the stream ends before the buffer is full
read_packet_bytes(bytes, pos) ==
    IF pos + 7 > Len(bytes)
    THEN [res |-> Err([kind |-> "UnexpectedSocketClose"]), next |-> Len(bytes) + 1]
    ELSE
      LET version == bytes[pos]
          type_id == bytes[pos + 1]
          req_id == U16(bytes[pos + 2], bytes[pos + 3])
          length == U16(bytes[pos + 4], bytes[pos + 5])
          padding_length == bytes[pos + 6]
          body == pos + 8
      IN
      IF version # 1
      THEN [res |-> Err([kind |-> "UnsuportedVersion", version |-> version]), next |-> body]
      ELSE IF req_id > 1
      THEN [res |-> Err([kind |-> "MultiplexingUnsupported"]), next |-> body]
      ELSE IF body + length - 1 > Len(bytes)
      THEN [res |-> Err([kind |-> "UnexpectedSocketClose"]), next |-> Len(bytes) + 1]
      ELSE IF body + length + padding_length - 1 > Len(bytes)
      THEN [res |-> Err([kind |-> "UnexpectedSocketClose"]), next |-> Len(bytes) + 1]
      ELSE [res |-> Ok([type_id |-> type_id, content |-> SubSeq(bytes, body, body + length - 1)]),
            next |-> body + length + padding_length]

\* the peer has put these packets on the stream and nothing has been read
Framed(fs) ==
    [NoCodec EXCEPT !.st = "stream", !.frames = fs, !.bytes = StreamBytes(fs)]

\* one call of read_packet on the stream; after an error the connection is
\* not read again
ReadPacket ==
    /\ codec.st = "stream"
    /\ Len(codec.packets) < Len(codec.frames)
    /\ LET r == read_packet_bytes(codec.bytes, codec.pos) IN
          codec' = [codec EXCEPT !.st = IF r.res.ok THEN "stream" ELSE "failed",
                                 !.packets = Append(@, r.res),
                                 !.starts = Append(@, codec.pos),
                                 !.pos = r.next]
    /\ UNCHANGED <<conns, pending, arrived, acc, events, woken, exit, chan, hpc, hres, resp, config, pipe, readable>>

InitFraming ==
    /\ conns = [c \in Ids |-> NoConn]
    /\ pending = 0
    /\ arrived = 0
    /\ acc = "start"
    /\ events = <<>>
    /\ woken = FALSE
    /\ exit = Running
    /\ chan = "open"
    /\ hpc = "held"
    /\ hres = "None"
    /\ \E fs \in UNION {[1..n -> Frames] : n \in 1..MaxFrames} : codec = Framed(fs)
    /\ resp = NoResp
    /\ config = NoConfig
    /\ pipe = NoPipe
    /\ readable = FALSE

NextFraming == ReadPacket

SpecFraming == InitFraming /\ [][NextFraming]_vars

---------------------------------------------------------------------------
(* Pairs records built from a list of pairs, and payloads of pairs sent by *)
(* a peer, taken through record/pairs.rs                                   *)

\* the lists of pairs tried: names "A", "B", "C" with values "" and "0",
\* in any order and with repetitions
PairLists ==
    UNION {[1..n -> {<<k, v>> : k \in {<<65>>, <<66>>, <<67>>}, v \in {<<>>, StrZero}}] :
            n \in 0..MaxPairs}

RECURSIVE from_iter(_, _)
\* BTreeMap::from_iter over the pairs in the order given
from_iter(list, map) ==
    IF list = <<>> THEN map
    ELSE from_iter(Tail(list), MapInsert(map, Head(list)[1], Head(list)[2]))

RECURSIVE PayloadOf(_)
\* the payload a peer sends for the pairs of list in this order: for each
\* pair its two lengths, its name and its value
PayloadOf(list) ==
    IF list = <<>> THEN <<>>
    ELSE <<Len(Head(list)[1]), Len(Head(list)[2])>> \o Head(list)[1] \o Head(list)[2]
            \o PayloadOf(Tail(list))

\* Params::new(pairs) (params.rs:22-28), and the same for the other two
\* pairs records
ParamsNew ==
    /\ codec.st = "listed"
    /\ \E type \in {"Params", "GetValues", "GetValuesResult"} :
          codec' = [codec EXCEPT !.st = "drawn",
                                 !.record = [type |-> type,
                                             pairs |-> from_iter(codec.inserted, EmptyMap)]]
    /\ UNCHANGED <<conns, pending, arrived, acc, events, woken, exit, chan, hpc, hres, resp, config, pipe, readable>>

\* Params::from_record_bytes on the payload of a peer that sent the pairs in
\* the order of the list
FromPeerBytes ==
    /\ codec.st = "listed"
    /\ codec' = [codec EXCEPT !.st = "peer_decoded",
                              !.bytes = PayloadOf(codec.inserted),
                              !.decoded = Record_from_bytes(FCGI_PARAMS,
                                                            PayloadOf(codec.inserted))]
    /\ UNCHANGED <<conns, pending, arrived, acc, events, woken, exit, chan, hpc, hres, resp, config, pipe, readable>>

\* Params::write_record_bytes on the record decoded
Reencode ==
    /\ codec.st = "peer_decoded"
    /\ codec.decoded.ok
    /\ codec' = [codec EXCEPT !.st = "reencoded",
                              !.back = Record_write_bytes(codec.decoded.val)]
    /\ UNCHANGED <<conns, pending, arrived, acc, events, woken, exit, chan, hpc, hres, resp, config, pipe, readable>>

InitPairs ==
    /\ conns = [c \in Ids |-> NoConn]
    /\ pending = 0
    /\ arrived = 0
    /\ acc = "start"
    /\ events = <<>>
    /\ woken = FALSE
    /\ exit = Running
    /\ chan = "open"
    /\ hpc = "held"
    /\ hres = "None"
    /\ \E list \in PairLists : codec = [NoCodec EXCEPT !.st = "listed", !.inserted = list]
    /\ resp = NoResp
    /\ config = NoConfig
    /\ pipe = NoPipe
    /\ readable = FALSE

NextPairs == ParamsNew \/ WriteBytes \/ FromPeerBytes \/ Reencode

SpecPairs == InitPairs /\ [][NextPairs]_vars

---------------------------------------------------------------------------
(* Responses (context.rs): built by the set_* calls, then serialized into  *)
(* the payload of the Stdout record                                        *)

\* "Location" (context.rs:161)
StrLocation == <<76, 111, 99, 97, 116, 105, 111, 110>>

\* "Content-Type" (context.rs:134)
StrContentType == <<67, 111, 110, 116, 101, 110, 116, 45, 84, 121, 112, 101>>

RECURSIVE Decimal(_)
\* the Display of a u16, as writeln!("Status: {}", self.status) formats it
Decimal(n) == IF n < 10 THEN <<48 + n>> ELSE Decimal(n \div 10) \o <<48 + (n % 10)>>

\* Response::default(): status 200, no header, no body
Response_default == [status |-> 200, headers |-> EmptyMap, body |-> <<>>]

\* Response::set_header: insert into the BTreeMap, replacing the value of a
\* key already there
set_header(response, key, value) ==
    [response EXCEPT !.headers = MapInsert(@, key, value)]

\* Response::set_status
set_status(response, code) == [response EXCEPT !.status = code]

\* Response::set_raw_body
set_raw_body(response, body) == [response EXCEPT !.body = body]

\* a serialization that writes the headers, the empty line and the body
\* only, as FcgiContext::write_stdout_bytes does
Response_write_no_status(response) ==
    header_lines(response.headers, SortedKeys(DOMAIN response.headers))
        \o StrNewline \o response.body

\* Response::write_stdout_bytes: the headers as the BTreeMap iterates them,
\* the Status line, an empty line, the body
Response_write_stdout_bytes(response) ==
    header_lines(response.headers, SortedKeys(DOMAIN response.headers))
        \o StrStatus \o StrColonSpace \o Decimal(response.status) \o StrNewline
        \o StrNewline \o response.body

\* the builder calls tried: the headers of the redirect and content-type
\* constructors, two status codes of status.rs, one body
BuilderCalls ==
    {[op |-> "set_header", key |-> k, value |-> v] :
        k \in {StrLocation, StrContentType}, v \in {StrSlash, StrBAR}}
    \cup {[op |-> "set_status", code |-> c] : c \in {307, 404}}
    \cup {[op |-> "set_raw_body", body |-> StrBAR]}

\* one builder call on the response
Built(response, call) ==
    CASE call.op = "set_header" -> set_header(response, call.key, call.value)
      [] call.op = "set_status" -> set_status(response, call.code)
      [] call.op = "set_raw_body" -> set_raw_body(response, call.body)

\* Response::new()
NewResponse ==
    /\ resp.st = "idle"
    /\ resp' = [resp EXCEPT !.st = "building", !.response = Response_default]
    /\ UNCHANGED <<conns, pending, arrived, acc, events, woken, exit, chan, hpc, hres, codec, config, pipe, readable>>

\* one of set_header, set_status, set_raw_body on the response being built
BuilderCall ==
    /\ resp.st = "building"
    /\ Len(resp.calls) < MaxCalls
    /\ \E call \in BuilderCalls :
          resp' = [resp EXCEPT !.response = Built(@, call),
                               !.calls = Append(@, call)]
    /\ UNCHANGED <<conns, pending, arrived, acc, events, woken, exit, chan, hpc, hres, codec, config, pipe, readable>>

\* response.write_stdout_bytes(&mut stdout.0)
WriteStdout ==
    /\ resp.st = "building"
    /\ resp' = [resp EXCEPT !.st = "written",
                            !.stdout = Response_write_stdout_bytes(resp.response)]
    /\ UNCHANGED <<conns, pending, arrived, acc, events, woken, exit, chan, hpc, hres, codec, config, pipe, readable>>

InitResponse ==
    /\ conns = [c \in Ids |-> NoConn]
    /\ pending = 0
    /\ arrived = 0
    /\ acc = "start"
    /\ events = <<>>
    /\ woken = FALSE
    /\ exit = Running
    /\ chan = "open"
    /\ hpc = "held"
    /\ hres = "None"
    /\ codec = NoCodec
    /\ resp = NoResp
    /\ config = NoConfig
    /\ pipe = NoPipe
    /\ readable = FALSE

NextResponse == NewResponse \/ BuilderCall \/ WriteStdout

SpecResponse == InitResponse /\ [][NextResponse]_vars

---------------------------------------------------------------------------
(* The staged responder (fastcgi_responder.rs, handle_connection): the     *)
(* request is offered to the file server, then the router, then the        *)
(* fallback of the ServerConfig                                            *)

\* status::NOT_FOUND
NOT_FOUND == 404

\* the stages in the order handle_connection tries them
Stages == <<"file_server", "router", "fallback">>

\* the response a stage yields when it yields one: its body names the stage
StageResponse(stage) ==
    set_raw_body(Response_default, <<CASE stage = "file_server" -> 102
                                       [] stage = "router" -> 114
                                       [] stage = "fallback" -> 98>>)

\* what a ServerConfig can be for one request: each stage is absent from
\* the configuration, or configured and yielding no response ("none"), or
\* configured and yielding one ("some"); a fallback always yields one
Configs ==
    [file_server : {"absent", "none", "some"}, router : {"absent", "none", "some"},
     fallback : {"absent", "some"}]

\* a stage selection in which a later stage overwrites an earlier response
respond_last_wins(cfg) ==
    LET ran == {Stages[i] : i \in {j \in 1..3 : cfg[Stages[j]] # "absent"}}
        some == {i \in 1..3 : cfg[Stages[i]] = "some"}
    IN  [ran |-> ran,
         response |-> IF some = {} THEN set_status(Response_default, NOT_FOUND)
                      ELSE StageResponse(Stages[CHOOSE i \in some : \A j \in some : j <= i])]

\* fastcgi_responder.rs:97-115: the stages run and the response chosen
respond(cfg) ==
    LET fs == IF cfg.file_server = "some" THEN <<StageResponse("file_server")>> ELSE <<>>
        router == IF fs # <<>> THEN fs
                  ELSE IF cfg.router = "some" THEN <<StageResponse("router")>> ELSE <<>>
        fallback == IF router # <<>> THEN router
                    ELSE IF cfg.fallback = "some" THEN <<StageResponse("fallback")>> ELSE <<>>
    IN  [ran |-> (IF cfg.file_server # "absent" THEN {"file_server"} ELSE {})
                   \cup (IF fs = <<>> /\ cfg.router # "absent" THEN {"router"} ELSE {})
                   \cup (IF router = <<>> /\ cfg.fallback # "absent" THEN {"fallback"}
                         ELSE {}),
         response |-> IF fallback = <<>> THEN set_status(Response_default, NOT_FOUND)
                      ELSE fallback[1]]

\* fastcgi_responder.rs:117-136: the Stdout record of the response, then
\* EndRequest(0, RequestComplete)
responder_write(response) ==
    <<write_record([type |-> "Stdout", bytes |-> Response_write_stdout_bytes(response)]),
      write_record(EndRequest_new(0, "RequestComplete"))>>

\* handle_connection on a pool thread, from its first read to its return:
\* the request is read as fast_cgi reads it, then the stages are run and
\* the response is written
HandleConnection(c) ==
    /\ conns[c].st = "reading"
    /\ \E r \in {fast_cgi_begin(conns[c].input)} :
          conns' = [conns EXCEPT ![c] =
                    IF r.dispatch
                    THEN [@ EXCEPT !.st = "done", !.worker = 0, !.pos = r.pos, !.why = "responded",
                                   !.context = respond(config),
                                   !.out = responder_write(respond(config).response)]
                    ELSE [@ EXCEPT !.st = "done", !.worker = 0, !.pos = r.pos, !.why = r.why,
                                   !.out = r.out]]
    /\ UNCHANGED <<pending, arrived, acc, events, woken, exit, chan, hpc, hres, codec, resp, config, pipe, readable>>

\* one connection in the pool's queue of a server started with any
\* configuration
InitResponder ==
    /\ \E input \in Scripts :
          conns = [c \in Ids |-> IF c = 1 THEN Submitted(input) ELSE NoConn]
    /\ pending = 0
    /\ arrived = 1
    /\ acc = "poll"
    /\ events = <<>>
    /\ woken = FALSE
    /\ exit = Running
    /\ chan = "open"
    /\ hpc = "held"
    /\ hres = "None"
    /\ codec = NoCodec
    /\ resp = NoResp
    /\ config \in Configs
    /\ pipe = NoPipe
    /\ readable = FALSE

NextResponder == \E c \in Ids : WorkerStart(c) \/ HandleConnection(c)

SpecResponder == InitResponder /\ [][NextResponder]_vars

---------------------------------------------------------------------------
(* Pipes (pipe.rs): a pipe maps a context to a context, or fails; A.or(B)  *)
(* tries A and then B                                                      *)

\* the pipes tried: the two of pipe.rs's tests, which succeed on the method
\* GET and on the path "/" and set a flag, and two custom pipes that set a
\* flag and then succeed, or fail, on every context
Pipes == {"MethodPipe", "PathPipe", "custom_some", "custom_none"}

\* the contexts tried: the method GET or not, the path "/" or not
Contexts == {NewContext(m, p, <<>>, <<>>) : m \in {StrGET, StrBAR}, p \in {StrSlash, StrBAR}}

\* Pipe::run of the pipes above on a context it owns: whether it succeeded,
\* and the context it returned or, when it failed, dropped
run(p, ctx) ==
    CASE p = "MethodPipe" ->
            IF ctx.method = StrGET
            THEN [ok |-> TRUE, ctx |-> with_header(ctx, <<77>>, <<>>)]
            ELSE [ok |-> FALSE, ctx |-> ctx]
      [] p = "PathPipe" ->
            IF ctx.path = StrSlash
            THEN [ok |-> TRUE, ctx |-> with_header(ctx, <<80>>, <<>>)]
            ELSE [ok |-> FALSE, ctx |-> ctx]
      [] p = "custom_some" -> [ok |-> TRUE, ctx |-> with_header(ctx, <<83>>, <<>>)]
      [] p = "custom_none" -> [ok |-> FALSE, ctx |-> with_header(ctx, <<78>>, <<>>)]

\* an Or whose second pipe is given the context as the first left it
Or_run_chained(first, second, ctx) ==
    LET a == run(first, ctx) IN
    IF a.ok
    THEN [result |-> <<a.ctx>>, ran |-> <<[pipe |-> first, on |-> ctx]>>]
    ELSE [result |-> IF run(second, a.ctx).ok THEN <<run(second, a.ctx).ctx>> ELSE <<>>,
          ran |-> <<[pipe |-> first, on |-> ctx], [pipe |-> second, on |-> a.ctx]>>]

\* <Or as Pipe>::run (pipe.rs:98-104): the result, Some as a sequence of one
\* context and None as the empty sequence, and the runs made, each with the
\* context it was given
Or_run(first, second, ctx) ==
    LET cloned == ctx
        a == run(first, cloned)
    IN  IF a.ok
        THEN [result |-> <<a.ctx>>, ran |-> <<[pipe |-> first, on |-> cloned]>>]
        ELSE [result |-> IF run(second, ctx).ok THEN <<run(second, ctx).ctx>> ELSE <<>>,
              ran |-> <<[pipe |-> first, on |-> cloned], [pipe |-> second, on |-> ctx]>>]

\* A.or(B).run(c)
OrRun ==
    /\ pipe.st = "built"
    /\ pipe' = [pipe EXCEPT !.st = "ran",
                            !.result = Or_run(pipe.first, pipe.second, pipe.ctx).result,
                            !.ran = Or_run(pipe.first, pipe.second, pipe.ctx).ran]
    /\ UNCHANGED <<conns, pending, arrived, acc, events, woken, exit, chan, hpc, hres, codec, resp, config, readable>>

\* an And whose second pipe is given the context the combination was given
And_run_original(first, second, ctx) ==
    LET a == run(first, ctx) IN
    IF ~a.ok
    THEN [result |-> <<>>, ran |-> <<[pipe |-> first, on |-> ctx]>>]
    ELSE [result |-> IF run(second, ctx).ok THEN <<run(second, ctx).ctx>> ELSE <<>>,
          ran |-> <<[pipe |-> first, on |-> ctx], [pipe |-> second, on |-> ctx]>>]

\* <And as Pipe>::run (pipe.rs:88-90): self.second.run(self.first.run(ctx)?)
And_run(first, second, ctx) ==
    LET a == run(first, ctx) IN
    IF ~a.ok
    THEN [result |-> <<>>, ran |-> <<[pipe |-> first, on |-> ctx]>>]
    ELSE [result |-> IF run(second, a.ctx).ok THEN <<run(second, a.ctx).ctx>> ELSE <<>>,
          ran |-> <<[pipe |-> first, on |-> ctx], [pipe |-> second, on |-> a.ctx]>>]

\* an Optional that returns the context as the failed pipe left it
Optional_run_dropped(inner, ctx) ==
    [result |-> <<run(inner, ctx).ctx>>, ran |-> <<[pipe |-> inner, on |-> ctx]>>]

\* <Optional as Pipe>::run (pipe.rs:111-117)
Optional_run(inner, ctx) ==
    LET cloned == ctx
        a == run(inner, cloned)
    IN  [result |-> IF a.ok THEN <<a.ctx>> ELSE <<ctx>>,
         ran |-> <<[pipe |-> inner, on |-> cloned]>>]

\* A.and(B).run(c)
AndRun ==
    /\ pipe.st = "built"
    /\ pipe' = [pipe EXCEPT !.st = "ran_and",
                            !.result = And_run(pipe.first, pipe.second, pipe.ctx).result,
                            !.ran = And_run(pipe.first, pipe.second, pipe.ctx).ran]
    /\ UNCHANGED <<conns, pending, arrived, acc, events, woken, exit, chan, hpc, hres, codec, resp, config, readable>>

\* optional(A).run(c)
OptionalRun ==
    /\ pipe.st = "built"
    /\ pipe' = [pipe EXCEPT !.st = "ran_optional",
                            !.result = Optional_run(pipe.first, pipe.ctx).result,
                            !.ran = Optional_run(pipe.first, pipe.ctx).ran]
    /\ UNCHANGED <<conns, pending, arrived, acc, events, woken, exit, chan, hpc, hres, codec, resp, config, readable>>

\* two pipes A and B to be combined, and any context
InitPipe ==
    /\ conns = [c \in Ids |-> NoConn]
    /\ pending = 0
    /\ arrived = 0
    /\ acc = "start"
    /\ events = <<>>
    /\ woken = FALSE
    /\ exit = Running
    /\ chan = "open"
    /\ hpc = "held"
    /\ hres = "None"
    /\ codec = NoCodec
    /\ resp = NoResp
    /\ config = NoConfig
    /\ readable = FALSE
    /\ \E first \in Pipes, second \in Pipes, ctx \in Contexts :
          pipe = [NoPipe EXCEPT !.st = "built", !.first = first, !.second = second,
                                !.ctx = ctx]

NextPipe == OrRun \/ AndRun \/ OptionalRun

SpecPipe == InitPipe /\ [][NextPipe]_vars

---------------------------------------------------------------------------
(* What the claims speak about *)

\* what the peer reads when the connection has been closed after the reply
CloseAfter == Err([kind |-> "UnexpectedSocketClose"])

\* the peer's reading of a reply: one Stdout record, one
\* EndRequest(0, RequestComplete), then the close
IsStdoutThenEnd(got) ==
    /\ Len(got) = 3
    /\ got[1].ok /\ got[1].val.type = "Stdout"
    /\ got[2] = Ok(EndRequest_new(0, "RequestComplete"))
    /\ got[3] = CloseAfter

\* the Params record holds the three variables fast_cgi requires
HasRequestVars(params) ==
    {REQUEST_METHOD, PATH_INFO, QUERY_STRING} \subseteq DOMAIN params.pairs

\* the stream is read as BeginRequest(Responder, no keep-alive), a Params
\* record with the three variables and a Stdin record
RequestRead(input) ==
    Bind(read_record(input, 1), LAMBDA r1 :
      /\ r1.res.ok
      /\ r1.res.val.type = "BeginRequest"
      /\ r1.res.val.flags % 2 = 0
      /\ Bind(read_record(input, r1.next), LAMBDA r2 :
           /\ r2.res.ok
           /\ r2.res.val.type = "Params"
           /\ HasRequestVars(r2.res.val)
           /\ Bind(read_record(input, r2.next), LAMBDA r3 :
                r3.res.ok /\ r3.res.val.type = "Stdin")))

\* the first packet of the stream is a BeginRequest of role Responder with
\* the KEEP_CONN bit set
FirstIsKeepAliveBegin(input) ==
    /\ input # <<>>
    /\ input[1].version = 1
    /\ input[1].req_id <= 1
    /\ input[1].type_id = FCGI_BEGIN_REQUEST
    /\ input[1].length = 8 /\ Len(input[1].content) = 8
    /\ U16(input[1].content[1], input[1].content[2]) = 1
    /\ input[1].content[3] % 2 = 1

\* the header of the packet passes the checks of read_packet
ValidHeader(packet) == packet.version = 1 /\ packet.req_id <= 1

\* the first packet of the stream is a well-formed BeginRequest whose role
\* code is not Responder's
FirstIsOtherRoleBegin(input) ==
    /\ input # <<>>
    /\ ValidHeader(input[1])
    /\ input[1].type_id = FCGI_BEGIN_REQUEST
    /\ input[1].length = 8 /\ Len(input[1].content) = 8
    /\ U16(input[1].content[1], input[1].content[2]) # 1

\* the errors read_packet returns on a header, before it reads the payload
HeaderFailures == {"UnsuportedVersion", "MultiplexingUnsupported"}

\* the number of packets of its input whose header the session has read:
\* when a header was refused the session stopped on that packet
\* (conn.pos), otherwise conn.pos is the first packet it did not read
HeadersRead(conn) == IF conn.why \in HeaderFailures THEN conn.pos ELSE conn.pos - 1

\* the first packet of the stream is a GetValues record
FirstIsGetValues(input) ==
    /\ input # <<>>
    /\ ValidHeader(input[1])
    /\ input[1].type_id = FCGI_GET_VALUES
    /\ Len(input[1].content) = input[1].length
    /\ pairs_from_record_bytes(input[1].content).ok

\* the names a GetValues packet asks for
Queried(packet) == DOMAIN pairs_from_record_bytes(packet.content).val

\* the GetValuesResult record that answers the names asked for: the one
\* variable the server knows, when it is among them
ValuesKnown(names) ==
    [type |-> "GetValuesResult",
     pairs |-> [k \in names \cap {FCGI_MPXS_CONNS} |-> StrZero]]

\* the record types sent as a stream of packets closed by an empty one:
\* the FastCGI types that are not discrete
StreamTypes == (1..11) \ DISCRETE_RECORD_TYPES

RECURSIVE StreamEnd(_, _, _)
\* the first packet from position j on that does not continue a stream of
\* type t: it is empty, of another type, or its header is refused;
\* Len(input) + 1 when every packet continues the stream
StreamEnd(input, j, t) ==
    IF j > Len(input) THEN j
    ELSE IF ValidHeader(input[j]) /\ input[j].type_id = t /\ input[j].content # <<>>
    THEN StreamEnd(input, j + 1, t)
    ELSE j

RECURSIVE Payloads(_, _, _)
\* the payloads of packets from..to of the input, one after the other
Payloads(input, from, to) ==
    IF from > to THEN <<>>
    ELSE input[from].content \o Payloads(input, from + 1, to)

\* a stream record starts at position pos: an accepted, non-empty packet of
\* a stream type, and the packets after it reach one that ends the stream
\* and whose header is accepted
StreamStartsAt(input, pos) ==
    /\ ValidHeader(input[pos])
    /\ input[pos].type_id \in StreamTypes
    /\ input[pos].content # <<>>
    /\ StreamEnd(input, pos + 1, input[pos].type_id) <= Len(input)
    /\ ValidHeader(input[StreamEnd(input, pos + 1, input[pos].type_id)])

\* the record is of a stream type
IsStreamRecord(r) == Record_type_id(r) \in StreamTypes

\* the record holds name-value pairs
IsPairsRecord(r) == r.type \in {"Params", "GetValues", "GetValuesResult"}

\* a BeginRequest the decoder takes: its role is supported; every other
\* record
Decodable(r) == r.type = "BeginRequest" => Role_supported(r.role)

\* the number of bytes of the length field that starts with byte b
LenFieldSize(b) == IF b <= 127 THEN 1 ELSE 4

\* the length field at position i of bytes encodes n as the claim says: one
\* byte equal to n up to 127, above it four big-endian bytes with the top
\* bit of the first set; and read_pair_len reads n back from it
LenFieldEncodes(bytes, i, n) ==
    /\ n <= 127 => bytes[i] = n
    /\ n > 127 =>
          /\ bytes[i] >= 128
          /\ (bytes[i] - 128) * 16777216 + bytes[i + 1] * 65536
                + bytes[i + 2] * 256 + bytes[i + 3] = n
    /\ read_pair_len(bytes, i) = Ok([len |-> n, next |-> i + (IF n <= 127 THEN 1 ELSE 4)])

\* the connections the acceptor has taken from the listener
Accepted == {c \in Ids : conns[c].st # "none"}

\* the acceptor is in the SHUTDOWN arm, in an error exit, or has exited
LoopLeft == acc \in {"join_shutdown", "join_err", "send", "exited"}

\* the names of the headers set by the calls, in the order of their first
\* set_header call
InsertionOrder(calls) ==
    LET first == {i \in DOMAIN calls :
                    /\ calls[i].op = "set_header"
                    /\ \A j \in 1..(i - 1) :
                          calls[j].op = "set_header" => calls[j].key # calls[i].key}
        RECURSIVE pick(_)
        pick(is) == IF is = {} THEN <<>>
                    ELSE LET m == CHOOSE i \in is : \A j \in is : i <= j
                         IN  <<calls[m].key>> \o pick(is \ {m})
    IN  pick(first)

\* the names of the headers set by the calls
HeadersSet(calls) == {calls[i].key : i \in {j \in DOMAIN calls : calls[j].op = "set_header"}}

\* the arrangements of a set of names in a sequence
Orders(names) ==
    {order \in [1..Cardinality(names) -> names] :
        \A i, j \in DOMAIN order : i # j => order[i] # order[j]}

\* the value a header was last set to
ValueSet(calls, key) ==
    LET is == {i \in DOMAIN calls : calls[i].op = "set_header" /\ calls[i].key = key}
    IN  calls[CHOOSE i \in is : \A j \in is : j <= i].value

RECURSIVE HeaderLines(_, _)
\* the lines "K: V\n" of the headers named by order
HeaderLines(calls, order) ==
    IF order = <<>> THEN <<>>
    ELSE Head(order) \o <<58, 32>> \o ValueSet(calls, Head(order)) \o <<10>>
            \o HeaderLines(calls, Tail(order))

\* the line "Status: <code>\n" of the status last set, 200 when none was
StatusLine(calls) ==
    LET is == {i \in DOMAIN calls : calls[i].op = "set_status"}
        code == IF is = {} THEN 200 ELSE calls[CHOOSE i \in is : \A j \in is : j <= i].code
        digits == <<48 + (code \div 100), 48 + ((code \div 10) % 10), 48 + (code % 10)>>
    IN  <<83, 116, 97, 116, 117, 115, 58, 32>> \o digits \o <<10>>

\* the body last set, empty when none was
BodySet(calls) ==
    LET is == {i \in DOMAIN calls : calls[i].op = "set_raw_body"}
    IN  IF is = {} THEN <<>> ELSE calls[CHOOSE i \in is : \A j \in is : j <= i].body

\* the pairs of the Params record when the stream is read as
\* BeginRequest(Responder, no keep-alive), a Params record and a Stdin
\* record, whatever the Params record holds
RequestParams(input) ==
    Bind(read_record(input, 1), LAMBDA r1 :
      IF ~(r1.res.ok /\ r1.res.val.type = "BeginRequest" /\ r1.res.val.flags % 2 = 0)
      THEN Err("no request")
      ELSE Bind(read_record(input, r1.next), LAMBDA r2 :
        IF ~(r2.res.ok /\ r2.res.val.type = "Params") THEN Err("no request")
        ELSE Bind(read_record(input, r2.next), LAMBDA r3 :
          IF r3.res.ok /\ r3.res.val.type = "Stdin" THEN Ok(r2.res.val.pairs)
          ELSE Err("no request"))))

\* the payload length a fixed-width record type requires
FixedWidth(type_id) ==
    CASE type_id \in {FCGI_BEGIN_REQUEST, FCGI_END_REQUEST, FCGI_UNKNOWN_TYPE} -> 8
      [] type_id = FCGI_ABORT_REQUEST -> 0

\* the name of the variant of a fixed-width record type
VariantName(type_id) ==
    CASE type_id = FCGI_BEGIN_REQUEST -> "BeginRequest"
      [] type_id = FCGI_END_REQUEST -> "EndRequest"
      [] type_id = FCGI_UNKNOWN_TYPE -> "UnknownType"
      [] type_id = FCGI_ABORT_REQUEST -> "AbortRequest"

\* a packet of a fixed-width record type
IsFixedWidth(p) ==
    p.type_id \in {FCGI_BEGIN_REQUEST, FCGI_END_REQUEST, FCGI_UNKNOWN_TYPE, FCGI_ABORT_REQUEST}

\* the names of the list, each once
NamesOf(list) == {list[i][1] : i \in DOMAIN list}

\* the value the list gives last to a name
LastValue(list, name) ==
    LET is == {i \in DOMAIN list : list[i][1] = name}
    IN  list[CHOOSE i \in is : \A j \in is : j <= i][2]

\* the pairs of the list in the order of names given, each name with its
\* last value
Arranged(list, order) == [i \in DOMAIN order |-> <<order[i], LastValue(list, order[i])>>]

\* the name of every pair of the list differs from the others
DistinctNames(list) == \A i, j \in DOMAIN list : i # j => list[i][1] # list[j][1]

\* the read errors that fall in the last arm of handle_error, by the names
\* of error.rs
SilentErrors ==
    {"UnexpectedSocketClose", "UnsuportedVersion", "MalformedRecordPayload",
     "UnspportedProtocolStatus", "InvalidUtf8KeyValuePair", "MalformedRecordStream"}

\* where the stream holds a record that decodes and is not the one the
\* session expects there: "first" (neither GetValues nor BeginRequest),
\* "params" (after a BeginRequest without keep-alive, not Params), "stdin"
\* (after the Params, not Stdin), or "" when there is none
OutOfSequence(input) ==
    Bind(read_record(input, 1), LAMBDA r1 :
      IF ~r1.res.ok THEN ""
      ELSE IF r1.res.val.type \notin {"GetValues", "BeginRequest"} THEN "first"
      ELSE IF r1.res.val.type = "GetValues" \/ r1.res.val.flags % 2 = 1 THEN ""
      ELSE Bind(read_record(input, r1.next), LAMBDA r2 :
        IF ~r2.res.ok THEN ""
        ELSE IF r2.res.val.type # "Params" THEN "params"
        ELSE Bind(read_record(input, r2.next), LAMBDA r3 :
          IF r3.res.ok /\ r3.res.val.type # "Stdin" THEN "stdin" ELSE "")))

\* the acceptor has left its loop or is leaving it: the shutdown arm was
\* taken, poll or accept failed, a conversion failed or the pool was not built
AcceptorStopped == acc \in {"join_shutdown", "join_err", "send", "exited"}

\* connection k has reached the listener
HasArrived(k) == arrived >= k

\* connection k has been accepted and its task submitted to the pool
InPool(k) == conns[k].st \notin {"none", "dropped"}

\* the bytes a packet takes on the stream: header, content and padding
FrameSize(f) == 8 + Len(f.content) + Len(f.padding)

RECURSIVE StartOf(_, _)
\* where the i-th packet of the stream begins
StartOf(fs, i) == IF i = 1 THEN 1 ELSE StartOf(fs, i - 1) + FrameSize(fs[i - 1])

\* the packets of the input the session has consumed in full; a packet
\* whose header was refused is the one at s.pos
Consumed(s) == SubSeq(s.input, 1, s.pos - 1)

\* the packets of the input the session has read from
Touched(s) == SubSeq(s.input, 1, IF s.pos <= Len(s.input) THEN s.pos ELSE Len(s.input))

\* reading these packets and no more brings fast_cgi to the point where it
\* replies: it writes a record, or it has the whole request and calls the
\* handler, whose response is the next thing written
Replies(packets) ==
    LET r == fast_cgi_begin(packets) IN r.dispatch \/ r.out # <<>>

\* the role code and the flags byte of a first packet that is a BeginRequest
\* of eight bytes
RoleOf(input) == U16(input[1].content[1], input[1].content[2])
FlagsOf(input) == input[1].content[3]

\* the EndRequest that refuses a role, and the one that refuses keep-alive
RefusesRole == write_record(EndRequest_new(0, "UnknownRole"))
RefusesKeepAlive == write_record(EndRequest_new(0, "MultiplexingUnsupported"))

---------------------------------------------------------------------------
(* The claims *)

\* C1: on a connection where the peer sent BeginRequest(Responder, no
\* keep-alive), Params with the three variables and Stdin, and the handler
\* returned, the peer reads exactly one Stdout record, then one
\* EndRequest(0, RequestComplete), then the close.
C1_StdoutThenEndRequest ==
    \A c \in Ids :
        (conns[c].st = "done" /\ conns[c].why = "responded")
            => IsStdoutThenEnd(read_all(conns[c].out, 1))

\* C2: the handler is invoked at most once on a connection; once the session
\* is past its reads it has been invoked exactly when BeginRequest(Responder,
\* no keep-alive), Params with the three variables and Stdin were read, and
\* a session that ended any other way never invoked it.
C2_HandlerOnce ==
    \A c \in Ids :
        /\ conns[c].calls <= 1
        /\ conns[c].st \in {"handler", "done"}
              => (conns[c].calls = 1 <=> RequestRead(conns[c].input))
        /\ (conns[c].st = "done" /\ conns[c].why \notin {"responded", "panicked"})
              => conns[c].calls = 0

\* C2 witness: a session that read the whole request and is in the handler
C2_Witness ==
    \E c \in Ids : conns[c].st = "handler" /\ conns[c].calls = 1 /\ RequestRead(conns[c].input)

\* C5: when the handler panicked, EndRequest(app_status=1, RequestComplete)
\* has been written on the connection by the time it is closed.
C5_PanicEndRequest ==
    \A c \in Ids :
        (conns[c].st = "done" /\ conns[c].why = "panicked")
            => \E i \in DOMAIN conns[c].out :
                  conns[c].out[i] = write_record(EndRequest_new(1, "RequestComplete"))

\* C10: when the first record is BeginRequest(Responder) with KEEP_CONN, the
\* session never reaches the handler, and when it is over the peer reads
\* exactly one record, EndRequest(0, MultiplexingUnsupported), then the close,
\* whatever followed the BeginRequest.
C10_KeepAliveRefused ==
    \A c \in Ids :
        FirstIsKeepAliveBegin(conns[c].input) =>
            /\ conns[c].st # "handler"
            /\ conns[c].calls = 0
            /\ conns[c].st = "done" =>
                  read_all(conns[c].out, 1)
                      = <<Ok(EndRequest_new(0, "MultiplexingUnsupported")), CloseAfter>>

\* C10 witness: a refused keep-alive request whose peer sent more packets
C10_Witness ==
    \E c \in Ids :
        /\ conns[c].st = "done"
        /\ FirstIsKeepAliveBegin(conns[c].input)
        /\ Len(conns[c].input) = MaxPackets
        /\ Len(conns[c].out) = 1

\* C3: when stop has returned from the rendezvous, every connection the
\* acceptor submitted to the pool has been handled to completion: none is
\* queued, being read or in the handler.
C3_StopAfterInFlight ==
    (hpc = "stopped" /\ hres = "Rendezvous")
        => \A c \in Ids : conns[c].st \in {"none", "done"}

\* C3 witness: stop returned from the rendezvous and every connection of the
\* run was accepted and answered
C3_Witness ==
    /\ hpc = "stopped" /\ hres = "Rendezvous"
    /\ \A c \in Ids : conns[c].st = "done" /\ conns[c].why = "responded"

\* C4 as stated: from the moment stop has signalled the waker, no connection
\* is accepted.
C4_NoAcceptAfterWake ==
    [][(hpc = "stop_recv" \/ (hpc = "stopped" /\ hres # "WakeFailed"))
          => Accepted' = Accepted]_vars

\* C4 amended: once the acceptor has taken the SHUTDOWN event (or an error
\* exit) it never returns to poll or accept and accepts no connection.
C4_NoAcceptAfterShutdownEvent ==
    [][LoopLeft => (LoopLeft' /\ Accepted' = Accepted)]_vars

\* C4 witness: the acceptor returned Normal with a connection left in the
\* listener's backlog, never accepted
C4_Witness ==
    /\ acc = "exited" /\ exit.reason = "Normal"
    /\ pending > 0
    /\ Accepted # {}

C7_ErrExitJoinsPool ==
    (exit.how = "returned" /\ exit.reason = "Err") => exit.idle

\* C8: a stop that blocks in recv returns (a stop whose wake failed has
\* returned in the same step).
C8_StopTerminates == (hpc = "stop_recv") ~> (hpc = "stopped")

\* C8 witness: stop returned on a recv error, the acceptor having panicked
C8_Witness == hpc = "stopped" /\ hres = "RecvErr" /\ exit.how = "panicked"

C11_UnknownRoleRefused ==
    \A c \in Ids :
        FirstIsOtherRoleBegin(conns[c].input) =>
            /\ conns[c].st # "handler"
            /\ conns[c].calls = 0
            /\ conns[c].st = "done" =>
                  read_all(conns[c].out, 1)
                      = <<Ok(EndRequest_new(0, "UnknownRole")), CloseAfter>>

\* C11 witness: a refused BeginRequest whose role code is none of the three
\* FastCGI roles, followed by more packets
C11_Witness ==
    \E c \in Ids :
        /\ conns[c].st = "done"
        /\ FirstIsOtherRoleBegin(conns[c].input)
        /\ U16(conns[c].input[1].content[1], conns[c].input[1].content[2]) \notin {1, 2, 3}
        /\ Len(conns[c].input) = MaxPackets
        /\ Len(conns[c].out) = 1

\* C12 as stated: whenever a packet whose header the session read carries a
\* request id above 1, the read failed on that packet with
\* MultiplexingUnsupported, the handler was not invoked, and the peer reads
\* exactly one record, EndRequest(0, MultiplexingUnsupported), then the close.
C12_MultiplexedRefused ==
    \A c \in Ids :
        \A i \in 1..HeadersRead(conns[c]) :
            conns[c].input[i].req_id > 1 =>
                /\ conns[c].st = "done"
                /\ conns[c].pos = i
                /\ conns[c].why = "MultiplexingUnsupported"
                /\ conns[c].calls = 0
                /\ read_all(conns[c].out, 1)
                      = <<Ok(EndRequest_new(0, "MultiplexingUnsupported")), CloseAfter>>

\* C12 amended: the same for every packet of version 1 whose request id is
\* above 1; a packet whose version is not 1 is refused for its version
\* first, whatever its request id.
C12_MultiplexedVersion1Refused ==
    \A c \in Ids :
        \A i \in 1..HeadersRead(conns[c]) :
            (conns[c].input[i].version = 1 /\ conns[c].input[i].req_id > 1) =>
                /\ conns[c].st = "done"
                /\ conns[c].pos = i
                /\ conns[c].why = "MultiplexingUnsupported"
                /\ conns[c].calls = 0
                /\ read_all(conns[c].out, 1)
                      = <<Ok(EndRequest_new(0, "MultiplexingUnsupported")), CloseAfter>>

\* C12 witness: a session refused on a multiplexed packet met while reading
\* Stdin, after BeginRequest and Params were read
C12_Witness ==
    \E c \in Ids :
        /\ conns[c].st = "done"
        /\ conns[c].why = "MultiplexingUnsupported"
        /\ conns[c].pos >= 4
        /\ conns[c].input[conns[c].pos].req_id > 1
        /\ Len(conns[c].out) = 1

\* C14: whenever a packet whose header the session read has a version other
\* than 1, the read failed on that packet with UnsupportedVersion without
\* moving past it, nothing was written on the connection and the handler
\* was not invoked.
C14_BadVersionSilentClose ==
    \A c \in Ids :
        \A i \in 1..HeadersRead(conns[c]) :
            conns[c].input[i].version # 1 =>
                /\ conns[c].st = "done"
                /\ conns[c].pos = i
                /\ conns[c].why = "UnsuportedVersion"
                /\ conns[c].out = <<>>
                /\ conns[c].calls = 0

\* C14 witness: a session closed on a packet of version 2 met after a
\* complete Params record
C14_Witness ==
    \E c \in Ids :
        /\ conns[c].st = "done"
        /\ conns[c].why = "UnsuportedVersion"
        /\ conns[c].pos >= 4
        /\ conns[c].input[conns[c].pos].version # 1
        /\ conns[c].out = <<>>

\* C13: whenever a packet whose header the session read and accepted has a
\* type id outside 1..11, the session is over without a handler call and the
\* peer reads exactly one record, UnknownType carrying that type id, then
\* the close, whatever the packet's payload and whatever follows it.
C13_UnknownTypeAnswered ==
    \A c \in Ids :
        \A i \in 1..HeadersRead(conns[c]) :
            (ValidHeader(conns[c].input[i]) /\ conns[c].input[i].type_id \notin 1..11) =>
                /\ conns[c].st = "done"
                /\ conns[c].calls = 0
                /\ read_all(conns[c].out, 1)
                      = <<Ok(UnknownType_new(conns[c].input[i].type_id)), CloseAfter>>

\* C15: when the first record is GetValues, the session never reaches the
\* handler, and when it is over the peer reads exactly one GetValuesResult,
\* holding FCGI_MPXS_CONNS = "0" when that name was asked for and nothing
\* else, then the close.
C15_GetValuesAnswered ==
    \A c \in Ids :
        FirstIsGetValues(conns[c].input) =>
            /\ conns[c].st # "handler"
            /\ conns[c].calls = 0
            /\ conns[c].st = "done" =>
                  read_all(conns[c].out, 1)
                      = <<Ok(ValuesKnown(Queried(conns[c].input[1]))), CloseAfter>>

\* C15 witness: a GetValues asking for FCGI_MPXS_CONNS and for a name the
\* server does not know has been answered
C15_Witness ==
    \E c \in Ids :
        /\ conns[c].st = "done"
        /\ FirstIsGetValues(conns[c].input)
        /\ Queried(conns[c].input[1]) = {FCGI_MPXS_CONNS, VALUE_WE_DONT_KNOW}
        /\ Len(conns[c].out) = 1

\* C16: read_record started on a non-empty packet of a stream type returns
\* what Record::from_bytes makes of the payloads, in arrival order, of the
\* packets before the first empty packet of that type, and has consumed
\* that empty packet; when a packet of another type comes before it,
\* read_record fails with MalformedRecordStream.
C16_StreamReassembled ==
    \A c \in Ids :
        \A pos \in 1..Len(conns[c].input) :
            StreamStartsAt(conns[c].input, pos) =>
                LET t == conns[c].input[pos].type_id
                    k == StreamEnd(conns[c].input, pos + 1, t)
                IN  read_record(conns[c].input, pos) =
                        IF conns[c].input[k].type_id = t
                        THEN [res |-> Record_from_bytes(t, Payloads(conns[c].input, pos, k - 1)),
                              next |-> k + 1]
                        ELSE [res |-> Err([kind |-> "MalformedRecordStream"]), next |-> k + 1]

\* C16 witness: a session has read a Params record sent as two different
\* non-empty packets and an empty one, and got the pairs of both
C16_Witness ==
    \E c \in Ids :
        /\ conns[c].st = "done"
        /\ conns[c].pos >= 5
        /\ conns[c].input[2] = ParamsNoQuery
        /\ conns[c].input[3] = ParamsBasic
        /\ read_record(conns[c].input, 2)
              = [res |-> Ok([type |-> "Params", pairs |-> BasicParamsMap]), next |-> 5]

\* C17: for a stream record with a payload of n > 0 bytes, write_record has
\* put ceil(n/65535)+1 packets of the record's type on the wire, none with
\* more than 65535 bytes and the last one empty, and read_record on them
\* has returned the record.
C17_StreamWrittenInChunks ==
    (codec.st = "read" /\ IsStreamRecord(codec.record) /\ Len(codec.record.bytes) > 0) =>
        /\ Len(codec.packets) = (Len(codec.record.bytes) + 65534) \div 65535 + 1
        /\ \A i \in DOMAIN codec.packets :
              /\ codec.packets[i].type_id = Record_type_id(codec.record)
              /\ Len(codec.packets[i].content) <= 65535
        /\ codec.packets[Len(codec.packets)].content = <<>>
        /\ codec.back = Ok(codec.record)

\* C18 as stated: for every record, of every variant and for a BeginRequest
\* of any role, from_bytes on what write_bytes wrote returns the record.
C18_RoundTripAnyRole ==
    codec.st = "decoded" => codec.decoded = Ok(codec.record)

\* C18 amended: the same for every record but a BeginRequest whose role is
\* not Responder, which from_bytes refuses.
C18_RoundTripResponder ==
    codec.st = "decoded" =>
        IF Decodable(codec.record)
        THEN codec.decoded = Ok(codec.record)
        ELSE codec.decoded = Err([kind |-> "UnsupportedRole", id |-> codec.record.role])

\* C18 witness: a Params record whose name and value need four-byte
\* lengths has been decoded from its own encoding
C18_Witness ==
    /\ codec.st = "decoded"
    /\ codec.record.type = "Params"
    /\ \E k \in DOMAIN codec.record.pairs : Len(k) = 200 /\ Len(codec.record.pairs[k]) = 128
    /\ codec.decoded = Ok(codec.record)

\* C19: every packet write_record has written has version 1, a padding
\* length p in 0..7 with (8 + content_length + p) mod 8 = 0 for the
\* content_length of its header, and exactly content_length payload bytes
\* after the header.
C19_PacketPadded ==
    codec.st \in {"written", "read"} =>
        \A i \in DOMAIN codec.packets :
            /\ codec.packets[i].version = 1
            /\ codec.packets[i].padding \in 0..7
            /\ (8 + codec.packets[i].length + codec.packets[i].padding) % 8 = 0
            /\ Len(codec.packets[i].content) = codec.packets[i].length

\* C20: in the encoding of a pairs record of one pair, the name length
\* then the value length are written as the claim says (one byte up to 127,
\* four bytes with the top bit set above), read_pair_len reads both back,
\* and the name and the value follow.
C20_PairLengths ==
    (codec.st = "encoded" /\ IsPairsRecord(codec.record)
        /\ Cardinality(DOMAIN codec.record.pairs) = 1) =>
        \A k \in DOMAIN codec.record.pairs :
            LET v == codec.record.pairs[k]
                vat == 1 + LenFieldSize(codec.bytes[1])
                kat == vat + LenFieldSize(codec.bytes[vat])
            IN  /\ LenFieldEncodes(codec.bytes, 1, Len(k))
                /\ LenFieldEncodes(codec.bytes, vat, Len(v))
                /\ SubSeq(codec.bytes, kat, Len(codec.bytes)) = k \o v

\* C20 witness: a pair with a name of 128 bytes and a value of 127 has been
\* encoded: a four-byte length next to a one-byte length
C20_Witness ==
    /\ codec.st = "encoded"
    /\ IsPairsRecord(codec.record)
    /\ \E k \in DOMAIN codec.record.pairs : Len(k) = 128 /\ Len(codec.record.pairs[k]) = 127
    /\ Len(codec.bytes) = 4 + 1 + 128 + 127

\* C21: write_record puts exactly one packet on the wire for a discrete
\* record, carrying the record's type and its whole encoding with no empty
\* packet after it, and exactly one packet, an empty one, for a stream
\* record of zero bytes.
C21_OnePacketPerRecord ==
    (codec.st \in {"written", "read"}
        /\ (Record_type_id(codec.record) \in DISCRETE_RECORD_TYPES
                \/ (IsStreamRecord(codec.record)
                        /\ Len(Record_write_bytes(codec.record)) = 0))) =>
        /\ Len(codec.packets) = 1
        /\ codec.packets[1].type_id = Record_type_id(codec.record)
        /\ codec.packets[1].content = Record_write_bytes(codec.record)
        /\ codec.packets[1].length = Len(codec.packets[1].content)

\* C21 witness: a Stdout record of zero bytes has been written as one packet
\* of length 0, and so has an EndRequest record as one packet of 8 bytes
C21_Witness ==
    /\ codec.st = "written"
    /\ Len(codec.packets) = 1
    /\ \/ codec.record.type = "Stdout" /\ codec.packets[1].length = 0
       \/ codec.record.type = "EndRequest" /\ codec.packets[1].length = 8

C24_MissingVariableAborts ==
    \A c \in Ids :
        RequestParams(conns[c].input).ok =>
            LET names == DOMAIN RequestParams(conns[c].input).val IN
            /\ ~({REQUEST_METHOD, PATH_INFO, QUERY_STRING} \subseteq names) =>
                  /\ conns[c].st # "handler"
                  /\ conns[c].calls = 0
                  /\ conns[c].st = "done" => conns[c].out = <<>>
            /\ ({REQUEST_METHOD, PATH_INFO, QUERY_STRING} \subseteq names
                    /\ RequestParams(conns[c].input).val[QUERY_STRING] = <<>>
                    /\ conns[c].st \in {"handler", "done"}) =>
                  conns[c].calls = 1

\* C24 witness: a session closed with nothing written on a request whose
\* Params hold PATH_INFO and QUERY_STRING but no REQUEST_METHOD, while a
\* request whose QUERY_STRING is there and empty reaches the handler
C24_Witness ==
    /\ \E c \in Ids :
          /\ RequestParams(conns[c].input).ok
          /\ DOMAIN RequestParams(conns[c].input).val = {PATH_INFO, QUERY_STRING}
          /\ conns[c].st = "done"
          /\ conns[c].why = "missing_var"
          /\ conns[c].out = <<>>
    /\ \E input \in MalformedInputs :
          /\ RequestParams(input).ok
          /\ DOMAIN RequestParams(input).val = {REQUEST_METHOD, PATH_INFO, QUERY_STRING}
          /\ RequestParams(input).val[QUERY_STRING] = <<>>
          /\ fast_cgi_begin(input).dispatch

\* C26: a packet of a fixed-width type whose payload has not the length the
\* type requires decodes to MalformedRecordPayload naming the variant; an
\* EndRequest of 8 bytes whose status byte is above 3 decodes to
\* UnspportedProtocolStatus (the spelling of error.rs); and a session whose
\* first record is such a packet, or that ended on one of these two errors,
\* invoked no handler and wrote nothing.
C26_MalformedFixedWidth ==
    \A c \in Ids :
        /\ \A i \in DOMAIN conns[c].input :
              LET p == conns[c].input[i] IN
              IsFixedWidth(p) =>
                /\ Len(p.content) # FixedWidth(p.type_id) =>
                      Record_from_bytes(p.type_id, p.content)
                          = Err([kind |-> "MalformedRecordPayload",
                                 of |-> VariantName(p.type_id)])
                /\ (p.type_id = FCGI_END_REQUEST /\ Len(p.content) = 8
                        /\ p.content[5] \notin 0..3) =>
                      Record_from_bytes(p.type_id, p.content)
                          = Err([kind |-> "UnspportedProtocolStatus", id |-> p.content[5]])
        /\ (conns[c].st = "done" /\ conns[c].input # <<>>
                /\ IsFixedWidth(conns[c].input[1])
                /\ ~Record_from_bytes(conns[c].input[1].type_id,
                                      conns[c].input[1].content).ok
                /\ Record_from_bytes(conns[c].input[1].type_id,
                                     conns[c].input[1].content).err.kind # "UnsupportedRole") =>
              conns[c].why = Record_from_bytes(conns[c].input[1].type_id,
                                               conns[c].input[1].content).err.kind
        /\ conns[c].why \in {"MalformedRecordPayload", "UnspportedProtocolStatus"} =>
              /\ conns[c].st = "done"
              /\ conns[c].calls = 0
              /\ conns[c].out = <<>>

\* C26 witness: a session closed with nothing written on an AbortRequest
\* of one byte met where the Params were expected
C26_Witness ==
    \E c \in Ids :
        /\ conns[c].st = "done"
        /\ conns[c].out = <<>>
        /\ conns[c].why = "MalformedRecordPayload"
        /\ Len(conns[c].input) >= 2
        /\ conns[c].input[1] = BeginResp
        /\ conns[c].input[2].type_id = FCGI_ABORT_REQUEST

\* C25: when a well-formed Responder request has been answered, the Stdout
\* record written holds the response of the first of file server, router,
\* fallback that yields one, no stage after it has run, every configured
\* stage before it has; when no stage yields a response the payload is the
\* empty response of status 404; EndRequest(0, RequestComplete) follows.
C25_FirstStageAnswers ==
    \A c \in Ids :
        (conns[c].st = "done" /\ conns[c].why = "responded") =>
            LET yielding == {i \in 1..3 : config[Stages[i]] = "some"}
                first == CHOOSE i \in yielding : \A j \in yielding : i <= j
            IN  /\ Len(conns[c].out) = 2
                /\ conns[c].out[1].type_id = FCGI_STDOUT
                /\ conns[c].out[2] = write_record(EndRequest_new(0, "RequestComplete"))
                /\ yielding # {} =>
                      /\ conns[c].out[1].content
                            = Response_write_stdout_bytes(StageResponse(Stages[first]))
                      /\ conns[c].context.ran
                            = {Stages[i] : i \in {j \in 1..first : config[Stages[j]] # "absent"}}
                /\ yielding = {} =>
                      /\ conns[c].out[1].content
                            = <<83, 116, 97, 116, 117, 115, 58, 32, 52, 48, 52, 10, 10>>
                      /\ conns[c].context.ran
                            = {Stages[i] : i \in {j \in 1..3 : config[Stages[j]] # "absent"}}

\* C25 witness: the file server yielded nothing, the router answered and
\* the fallback, though configured, did not run
C25_Witness ==
    \E c \in Ids :
        /\ conns[c].st = "done"
        /\ conns[c].why = "responded"
        /\ config = [file_server |-> "none", router |-> "some", fallback |-> "some"]
        /\ conns[c].context.ran = {"file_server", "router"}
        /\ conns[c].out[1].content
              = Response_write_stdout_bytes(StageResponse("router"))

\* C27 (as stated): a pairs record built from pairs of distinct names
\* encodes them in the order they were given, and a payload of pairs of
\* distinct names that is decoded and encoded again comes back unchanged.
C27_PairsInInsertionOrder ==
    DistinctNames(codec.inserted) =>
        /\ codec.st = "encoded" => codec.bytes = PayloadOf(codec.inserted)
        /\ codec.st = "reencoded" => codec.back = codec.bytes

\* C27 (amended): a pairs record encodes its pairs in ascending order of
\* their names, each name once with the value given last, whatever the
\* order they were given in; and a payload decoded and encoded again comes
\* back in that order.
C27_PairsInNameOrder ==
    codec.st \in {"encoded", "reencoded"} =>
        \E order \in Orders(NamesOf(codec.inserted)) :
            /\ \A i, j \in DOMAIN order : i < j => LexLess(order[i], order[j])
            /\ (IF codec.st = "encoded" THEN codec.bytes ELSE codec.back)
                  = PayloadOf(Arranged(codec.inserted, order))

\* C27 witness: the payload of "B" then "A" has been decoded and encoded
\* again, and came back as "A" then "B"
C27_Witness ==
    /\ codec.st = "reencoded"
    /\ codec.inserted = <<<<<<66>>, <<>>>>, <<<<65>>, StrZero>>>>
    /\ codec.bytes = <<1, 0, 66, 1, 1, 65, 48>>
    /\ codec.back = <<1, 1, 65, 48, 1, 0, 66>>

C30_OrTriesSecondOnOriginal ==
    pipe.st = "ran" =>
        LET a == run(pipe.first, pipe.ctx)
            b == run(pipe.second, pipe.ctx)
        IN  /\ a.ok => /\ pipe.result = <<a.ctx>>
                       /\ pipe.ran = <<[pipe |-> pipe.first, on |-> pipe.ctx]>>
            /\ ~a.ok => /\ pipe.ran = <<[pipe |-> pipe.first, on |-> pipe.ctx],
                                         [pipe |-> pipe.second, on |-> pipe.ctx]>>
                        /\ pipe.result = IF b.ok THEN <<b.ctx>> ELSE <<>>
            /\ pipe.result = <<>> <=> (~a.ok /\ ~b.ok)

\* C30 witness: the first pipe set a flag and failed, the second succeeded
\* on a context without that flag
C30_Witness ==
    /\ pipe.st = "ran"
    /\ pipe.first = "custom_none"
    /\ pipe.second = "PathPipe"
    /\ Len(pipe.result) = 1
    /\ DOMAIN pipe.result[1].outgoing_headers = {<<80>>}
    /\ pipe.ran[2].on = pipe.ctx

\* C31: when A.and(B) has run on c: if A fails on c only A has run and the
\* result is None; if A succeeds, B has run after it on the context A
\* returned and the result is B's; the result is Some exactly when A
\* succeeds on c and B succeeds on what A returned.
C31_AndFeedsSecond ==
    pipe.st = "ran_and" =>
        LET a == run(pipe.first, pipe.ctx)
            b == run(pipe.second, a.ctx)
        IN  /\ ~a.ok => /\ pipe.result = <<>>
                        /\ pipe.ran = <<[pipe |-> pipe.first, on |-> pipe.ctx]>>
            /\ a.ok => /\ pipe.ran = <<[pipe |-> pipe.first, on |-> pipe.ctx],
                                        [pipe |-> pipe.second, on |-> a.ctx]>>
                       /\ pipe.result = IF b.ok THEN <<b.ctx>> ELSE <<>>
            /\ pipe.result # <<>> <=> (a.ok /\ b.ok)

\* C31 witness: MethodPipe then PathPipe both succeeded and the result
\* carries the flags of both
C31_Witness ==
    /\ pipe.st = "ran_and"
    /\ pipe.first = "MethodPipe"
    /\ pipe.second = "PathPipe"
    /\ Len(pipe.result) = 1
    /\ DOMAIN pipe.result[1].outgoing_headers = {<<77>>, <<80>>}
    /\ pipe.ran[2].on # pipe.ctx

\* C32: optional(P).run(c) always returns a context: P's when P succeeds
\* on c, and c itself, without what P did to its copy, when P fails.
C32_OptionalNeverFails ==
    pipe.st = "ran_optional" =>
        /\ Len(pipe.result) = 1
        /\ pipe.ran = <<[pipe |-> pipe.first, on |-> pipe.ctx]>>
        /\ run(pipe.first, pipe.ctx).ok => pipe.result[1] = run(pipe.first, pipe.ctx).ctx
        /\ ~run(pipe.first, pipe.ctx).ok => pipe.result[1] = pipe.ctx

\* C32 witness: the pipe set a flag on its copy and failed, and the context
\* returned has no flag
C32_Witness ==
    /\ pipe.st = "ran_optional"
    /\ pipe.first = "custom_none"
    /\ pipe.result = <<pipe.ctx>>
    /\ DOMAIN pipe.ctx.outgoing_headers = {}
    /\ DOMAIN run(pipe.first, pipe.ctx).ctx.outgoing_headers = {<<78>>}

\* C33: handle_error writes nothing for UnexpectedSocketClose,
\* UnsuportedVersion, MalformedRecordPayload, UnspportedProtocolStatus,
\* InvalidUtf8KeyValuePair and MalformedRecordStream, and a session that a
\* read ended with one of them is closed with nothing written and no
\* handler call.
C33_OtherErrorsSilent ==
    /\ \A kind \in SilentErrors : handle_error([kind |-> kind]) = <<>>
    /\ \A c \in Ids :
          conns[c].why \in SilentErrors =>
              /\ conns[c].st = "done"
              /\ conns[c].out = <<>>
              /\ conns[c].calls = 0

\* C33 witness: a session closed with nothing written on a pair that is not
\* UTF-8, each of the six errors being the end of the session of some
\* stream
C33_Witness ==
    /\ \E c \in Ids :
          /\ conns[c].st = "done"
          /\ conns[c].why = "InvalidUtf8KeyValuePair"
          /\ conns[c].out = <<>>
          /\ conns[c].pos > 1
    /\ \A kind \in SilentErrors :
          \E input \in MalformedInputs : fast_cgi_begin(input).why = kind

\* C34: when the first record decodes and is neither GetValues nor
\* BeginRequest, or the record read after a BeginRequest without keep-alive
\* decodes and is not Params, or the record read after the Params decodes
\* and is not Stdin, the handler is never invoked and the connection is
\* closed with no record written.
C34_OutOfSequenceClosed ==
    \A c \in Ids :
        OutOfSequence(conns[c].input) # "" =>
            /\ conns[c].st # "handler"
            /\ conns[c].calls = 0
            /\ conns[c].st = "done" =>
                  /\ conns[c].out = <<>>
                  /\ conns[c].why =
                        CASE OutOfSequence(conns[c].input) = "first" -> "unexpected_first"
                          [] OutOfSequence(conns[c].input) = "params" -> "missing_params"
                          [] OutOfSequence(conns[c].input) = "stdin" -> "missing_stdin"

\* C34 witness: a session closed with nothing written on a second
\* BeginRequest met where the Stdin was expected, streams with a record out
\* of sequence at each of the three places being among those sent
C34_Witness ==
    /\ \E c \in Ids :
          /\ conns[c].st = "done"
          /\ conns[c].out = <<>>
          /\ OutOfSequence(conns[c].input) = "stdin"
          /\ conns[c].input[Len(conns[c].input)].type_id = FCGI_BEGIN_REQUEST
    /\ \A place \in {"first", "params", "stdin"} :
          \E input \in Inputs : OutOfSequence(input) = place

\* C35: while the acceptor runs and neither a shutdown nor an I/O error
\* occurs, every connection that reaches the listener is eventually accepted
\* and handed to the pool; the accept arm is left for the next event only
\* when accept has reported would-block, so no connection stays in the
\* backlog without a readiness event to come.
C35_PendingAccepted ==
    /\ [][(acc = "accept" /\ acc' # "accept" /\ ~AcceptorStopped') => pending = 0]_vars
    /\ \A k \in Ids : HasArrived(k) ~> (InPool(k) \/ AcceptorStopped)

\* C35 witness: two connections wait in the backlog and the acceptor is in
\* the accept arm on the single readiness event poll delivered for them.
C35_Witness ==
    /\ acc = "accept"
    /\ pending = 2
    /\ ~readable
    /\ exit.how = "running"


\* C36: a successful read_packet consumes the eight header bytes, the content
\* and the padding of one packet and nothing more, and returns the type and
\* the content the peer sent whatever the padding bytes and the reserved
\* byte are; so every read_packet begins at the header of the next packet.
C36_PacketFraming ==
    codec.st \in {"stream", "failed"} =>
        /\ \A i \in 1..Len(codec.packets) :
              /\ codec.starts[i] = StartOf(codec.frames, i)
              /\ codec.packets[i].ok <=> codec.frames[i].version = 1
              /\ codec.packets[i].ok =>
                    /\ codec.packets[i].val.type_id = codec.frames[i].type_id
                    /\ codec.packets[i].val.content = codec.frames[i].content
                    /\ (IF i < Len(codec.packets) THEN codec.starts[i + 1] ELSE codec.pos)
                          = codec.starts[i] + FrameSize(codec.frames[i])

\* C36 witness: two packets with content, with padding bytes that are not
\* zero and with a reserved byte that is not zero have been read.
C36_Witness ==
    /\ codec.st = "stream"
    /\ Len(codec.packets) = 2
    /\ \A i \in 1..2 :
          /\ codec.packets[i].ok
          /\ codec.frames[i].content # <<>>
          /\ codec.frames[i].padding = <<9, 8>>
          /\ codec.frames[i].reserved = 7
    /\ codec.pos = Len(codec.bytes) + 1


\* C37: when the acceptor reaches the send of the SHUTDOWN arm, stop() is
\* waiting in recv or has just taken the message, so the send succeeds: the
\* acceptor never panics in the branch after a failed send, whether the
\* owner of the handle calls stop, calls join or drops the handle.
C37_SendSucceeds ==
    /\ acc = "send" => (hpc = "stop_recv" \/ (hpc = "stopped" /\ chan = "taken"))
    /\ exit # Panicked("send")
    /\ (exit.how = "returned" /\ exit.reason = "Normal") => chan = "taken"

\* C37 witness: the acceptor has joined a pool that had work and is blocked
\* in send, with stop() waiting in recv.
C37_Witness ==
    /\ acc = "send"
    /\ hpc = "stop_recv"
    /\ chan = "open"
    /\ \E c \in Ids : conns[c].st = "done"


\* C38: a session that has written has consumed just the packets that made
\* it reply (the last of them in part when its header was refused): no
\* shorter prefix of what it consumed brings a reply, a
\* BeginRequest consumed after the first packet ended the session without a
\* handler call, and once the session is over or in the handler its read
\* position never moves, so what the peer sent after that point stays unread.
C38_NoReadAfterWrite ==
    [][\A c \in Ids :
          LET s == conns[c]
              t == conns'[c]
          IN
          /\ s.st \in {"handler", "done"} => t.pos = s.pos
          /\ (t.st = "done" /\ t.out # <<>>) =>
                /\ t.pos - 1 <= Len(t.input)
                /\ Replies(Consumed(t)) \/ Replies(Touched(t))
                /\ \A k \in 0..(t.pos - 2) : ~Replies(SubSeq(t.input, 1, k))
                /\ \A k \in 2..(t.pos - 1) :
                      t.input[k].type_id = FCGI_BEGIN_REQUEST => (k = t.pos - 1 /\ t.calls = 0)
    ]_vars

\* C38 witness: the session answered a first BeginRequest and is over, and a
\* second BeginRequest the peer sent behind it was never consumed.
C38_Witness ==
    \E c \in Ids :
        /\ conns[c].st = "done"
        /\ conns[c].out # <<>>
        /\ conns[c].pos = 2
        /\ Len(conns[c].input) >= 2
        /\ conns[c].input[1].type_id = FCGI_BEGIN_REQUEST
        /\ conns[c].input[2].type_id = FCGI_BEGIN_REQUEST


C40_RoleBeforeKeepAlive ==
    \A c \in Ids :
        (conns[c].st \in {"handler", "done"} /\ conns[c].input # <<>>
            /\ conns[c].input[1].type_id = FCGI_BEGIN_REQUEST
            /\ Len(conns[c].input[1].content) = 8) =>
          LET role == RoleOf(conns[c].input)
              flags == FlagsOf(conns[c].input)
          IN
          /\ role # 1 =>
                /\ conns[c].st = "done"
                /\ conns[c].out = <<RefusesRole>>
                /\ conns[c].calls = 0
          /\ (role = 1 /\ flags % 2 = 1) =>
                /\ conns[c].st = "done"
                /\ conns[c].out = <<RefusesKeepAlive>>
                /\ conns[c].calls = 0
          /\ (role = 1 /\ flags % 2 = 0) =>
                /\ \A i \in DOMAIN conns[c].out : conns[c].out[i] # RefusesKeepAlive
                /\ Len(conns[c].input) > 1 => conns[c].calls = 1

\* C40 witness: a BeginRequest with the Authorizer role and KEEP_CONN among
\* the bits of its flags byte was answered with EndRequest(UnknownRole).
C40_Witness ==
    \E c \in Ids :
        /\ conns[c].st = "done"
        /\ conns[c].input # <<>>
        /\ conns[c].input[1] = BeginWith(2, 3)
        /\ conns[c].out = <<RefusesRole>>

===========================================================================
